---- MODULE Spec2Model ----
(***************************************************************************)
(* Calendar block engine of chainpoint-services (calendar service):        *)
(* hash-chained block store, the Consul lock on CALENDAR_LOCK_KEY, and the *)
(* lock handlers (genesis, calendar, nist, btc-anchor, btc-confirm,        *)
(* reward) of every stack that writes to the shared store.                 *)
(***************************************************************************)
EXTENDS Integers, Sequences, FiniteSets, TLC

(***************************************************************************)
(* Bounds of the model.                                                    *)
(***************************************************************************)
\* block writes are disabled once the store holds this many rows
MaxBlocks == 3
\* retries of a block write inside a lock handler (the code passes 15)
MaxRetries == 1
\* aggregator messages delivered over a whole run
MaxAgg == 2
\* outstanding acquireLockAsync retry loops per lock object
MaxPending == 1
\* seconds the clock may advance
MaxTime == 1
\* acks and nacks recorded per delivered message
MaxSettle == 3
MaxMon == 2
MaxRew == 2
MaxOther == 2
\* btctx messages delivered
MaxBtcTx == 2
\* connection attempts of openStandardRMQConnectionAsync
MaxConnAttempts == 3
MaxAuditMinutes == 2
\* days the clock of the audit producer may advance
MaxAuditDays == 2
AuditStartMinute == 598
MaxContenders == 2
MaxPreload == 3

Stacks == {1, 2}
LockNames == {"genesis", "calendar", "nist", "btc-anchor", "btc-confirm", "reward"}
NULL == [null |-> TRUE]
\* a JavaScript variable holding null or a string
JsStr(str) == [str |-> str]
\* a JavaScript variable holding null or an integer
JsInt(n) == [int |-> n]

(***************************************************************************)
(* Byte strings and JavaScript strings.                                    *)
(* A byte string is a sequence of chunks; a chunk is a named literal run   *)
(* of bytes or a SHA-256 digest of a byte string.  A JavaScript string is  *)
(* either the hex encoding of a byte string or a text whose UTF-8 bytes    *)
(* are the byte string.                                                    *)
(***************************************************************************)
Lit(name) == [t |-> name, v |-> <<>>]
Sha256(bytes) == [t |-> "SHA256", v |-> bytes]
HexStr(bytes) == [hex |-> TRUE, b |-> bytes]
Txt(name) == [hex |-> FALSE, b |-> <<Lit(name)>>]
isHex(s) == s.hex
\* Buffer.from(s, 'hex') / Buffer.from(s, 'utf8'); decoding a text as hex
\* yields no bytes, encoding a hex string as text yields its characters
BufferFrom(s, enc) ==
  IF enc = "hex" THEN (IF s.hex THEN s.b ELSE <<>>)
  ELSE (IF s.hex THEN <<[t |-> "hexchars", v |-> s.b]>> ELSE s.b)
\* crypto.createHash('sha256').update(buf).digest('hex')
Sha256Hex(bytes) == HexStr(<<Sha256(bytes)>>)

zeroStr == HexStr(<<Lit("00x32")>>)

(***************************************************************************)
(* Merkle Builder (merkle-tools as the calendar service drives it):        *)
(* leaves are hex strings taken as bytes, inner nodes are SHA-256 of       *)
(* left || right, an unpaired last node is promoted unchanged.             *)
(***************************************************************************)
MerkleNextLevel(nodes) ==
  [i \in 1..((Len(nodes) + 1) \div 2) |->
     IF 2 * i <= Len(nodes)
     THEN <<Sha256(nodes[2 * i - 1] \o nodes[2 * i])>>
     ELSE nodes[2 * i - 1]]

RECURSIVE MerkleRootOfLevel(_)
MerkleRootOfLevel(nodes) ==
  IF Len(nodes) = 1 THEN nodes[1] ELSE MerkleRootOfLevel(MerkleNextLevel(nodes))

\* addLeaves(leaves); makeTree(); getMerkleRoot().toString('hex')
MerkleRootHex(leaves) ==
  HexStr(MerkleRootOfLevel([i \in 1..Len(leaves) |-> BufferFrom(leaves[i], "hex")]))

RECURSIVE MerkleProofOfLevel(_, _)
MerkleProofOfLevel(nodes, idx) ==
  IF Len(nodes) = 1 THEN <<>>
  ELSE LET isRightNode == (idx % 2 = 0)
           sibling == IF isRightNode THEN idx - 1 ELSE idx + 1
           here == IF sibling > Len(nodes) THEN <<>>
                   ELSE <<[side |-> IF isRightNode THEN "left" ELSE "right",
                           val |-> HexStr(nodes[sibling])]>>
       IN here \o MerkleProofOfLevel(MerkleNextLevel(nodes), (idx + 1) \div 2)

\* getProof(x) for the x-th leaf (1-based here, 0-based in the code)
MerkleProof(leaves, idx) ==
  MerkleProofOfLevel([i \in 1..Len(leaves) |-> BufferFrom(leaves[i], "hex")], idx)

RECURSIVE Intersperse(_, _)
Intersperse(items, opItem) ==
  IF items = <<>> THEN <<>>
  ELSE <<Head(items), opItem>> \o Intersperse(Tail(items), opItem)

\* a variant that takes the sides the other way round
formatAsChainpointV3OpsSwapped(proof, op) ==
  Intersperse([i \in 1..Len(proof) |->
                 [k |-> IF proof[i].side = "left" THEN "r" ELSE "l",
                  val |-> proof[i].val]],
              [k |-> "op", val |-> Txt(op)])

\* proof items {left: h} / {right: h} become {l: h} / {r: h}, each followed
\* by {op: op}
formatAsChainpointV3Ops(proof, op) ==
  Intersperse([i \in 1..Len(proof) |->
                 [k |-> IF proof[i].side = "left" THEN "l" ELSE "r",
                  val |-> proof[i].val]],
              [k |-> "op", val |-> Txt(op)])

(***************************************************************************)
(* Blocks.                                                                 *)
(***************************************************************************)
StackId(s) == "s" \o ToString(s)

\* `${id}:${time}:${version}:${stackId}:${type}:${dataId}`
BlockPrefixString(b) ==
  ToString(b.id) \o ":" \o ToString(b.time) \o ":" \o ToString(b.version) \o ":"
    \o b.stackId \o ":" \o b.type \o ":" \o b.dataId

calcBlockHashHex(b) ==
  LET prefixBuffer == BufferFrom(Txt(BlockPrefixString(b)), "utf8")
      dataValBuffer == IF isHex(b.dataVal) THEN BufferFrom(b.dataVal, "hex")
                       ELSE BufferFrom(b.dataVal, "utf8")
      prevHashBuffer == BufferFrom(b.prevHash, "hex")
  IN Sha256Hex(prefixBuffer \o dataValBuffer \o prevHashBuffer)

\* fingerprint12:base64Signature over the ASCII of the hash
calcBlockSig(blockHashHex) == [fp |-> "fp12", signed |-> blockHashHex]

\* the row writeBlockAsync builds from its arguments, the clock and the stack
BuildBlock(s, t, height, type, dataId, dataVal, prevHash) ==
  LET b == [id |-> height, time |-> t, version |-> 1, stackId |-> StackId(s),
            type |-> type, dataId |-> dataId, dataVal |-> dataVal,
            prevHash |-> prevHash]
      h == calcBlockHashHex(b)
  IN [id |-> b.id, time |-> b.time, version |-> b.version, stackId |-> b.stackId,
      type |-> b.type, dataId |-> b.dataId, dataVal |-> b.dataVal,
      prevHash |-> b.prevHash, hash |-> h, sig |-> calcBlockSig(h)]

(***************************************************************************)
(* State.                                                                  *)
(***************************************************************************)
VARIABLES
  now,                \* Date.now() in seconds
  blocks,             \* the calendar block table: a set of rows
  keyHolder,          \* Consul: who holds each lock key
  lock,               \* per stack and lock object: "idle", "waiting", "held"
  pending,            \* per stack and lock object: acquireLockAsync loops retrying
  proc,               \* per stack: "down", "storage", "running"
  amqpChannel,        \* per stack: TRUE when the channel is set, FALSE when null
  outState,           \* messages published to RMQ_WORK_OUT_STATE_QUEUE
  gen,                \* per stack: the genesisLock handler run
  AGGREGATION_ROOTS,  \* per stack: the buffered root objects
  aggIn,              \* aggregator messages delivered so far; index = message;
                      \* to = the consumer, lost = its connection closed since
  settle,             \* per aggregator message: the acks and nacks sent for it
  cal,                \* per stack: the calendarLock handler run
  calq,               \* per stack: queueCalStateDataAsync runs in flight
  calDone,            \* per stack: how the last queueCalStateDataAsync run ended
  IS_LEADER,          \* per stack: the leadership flag
  nistLatest,         \* per stack: the latest NIST value, or NULL
  nist,               \* per stack: the nistLock handler run
  lastBtcAnchorBlockId, \* per stack: set by the anchor job
  anc,                \* per stack: the btcAnchorLock handler run
  ancq,               \* per stack: queueBtcAStateDataAsync runs in flight
  outBtcTx,           \* messages published to RMQ_WORK_OUT_BTCTX_QUEUE
  BTC_MON_MESSAGES,   \* per stack: buffered btcmon messages
  monIn,              \* btcmon messages delivered so far; index = message
  monSettle,          \* per btcmon message: the acks and nacks sent for it
  conf,               \* per stack: the btcConfirmLock handler run
  confq,              \* per stack: queueBtcCStateDataAsync runs in flight
  rewardLatest,       \* per stack: the latest reward message, or NULL
  rewIn,              \* reward messages delivered so far; index = message
  rewSettle,          \* per reward message: the acks and nacks sent for it
  rew,                \* per stack: the rewardLock handler run
  transfers,          \* POST /transfer requests sent to the token service
  utcNow,             \* node-api-service: moment().utc(), in minutes
  putNode,            \* node-api-service: the last PUT /node request, or NULL
  RegisteredNode,     \* node-api-service: the rows of the Node table
  http,               \* node-api-service: the requests being handled
  regNodesLimit,      \* node-api-service: the registration cap
  ANCHOR_BTC,         \* env.ANCHOR_BTC of the calendar processes
  otherIn,            \* messages that processMessage acked and dropped
  btcTxIn,            \* btctx messages delivered so far and where their
                      \* consumeBtcTxMessageAsync run stands; index = message
  outBtcMon,          \* messages published to RMQ_WORK_OUT_BTCMON_QUEUE
  rmq,                \* node-lib: a caller of openStandardRMQConnectionAsync, the
                      \* connections it made and the callbacks it got
  AUDIT_IS_LEADER,    \* node-audit-producer: IS_LEADER of each instance
  auditChannel,       \* node-audit-producer: amqpChannel is set
  producer,           \* node-audit-producer: where each instance stands
  auditClock,         \* node-audit-producer: new Date(), in minutes of the day
  auditChallenge,     \* the cached audit challenge, or NULL
  auditQueue,         \* the messages published to the audit queue
  NodeAuditLog        \* the audit_at values of the audit log rows, ascending

lockVars == <<keyHolder, lock, pending>>
connVars == <<proc, amqpChannel>>
calVars == <<AGGREGATION_ROOTS, aggIn, settle, cal, calq, calDone>>
nistVars == <<IS_LEADER, nistLatest, nist>>
ancVars == <<lastBtcAnchorBlockId, anc, ancq, outBtcTx>>
confVars == <<BTC_MON_MESSAGES, monIn, monSettle, conf, confq>>
rewVars == <<rewardLatest, rewIn, rewSettle, rew, transfers>>
apiVars == <<utcNow, putNode, RegisteredNode, http, regNodesLimit>>
envVars == <<ANCHOR_BTC, otherIn, btcTxIn, outBtcMon, rmq>>
auditVars == <<AUDIT_IS_LEADER, auditChannel, producer, auditClock,
               auditChallenge, auditQueue, NodeAuditLog>>
vars == <<now, blocks, lockVars, connVars, outState, gen, calVars, nistVars,
          ancVars, confVars, rewVars, apiVars, envVars, auditVars>>

NoHolder == <<>>
RootVals == {1, 2}
NistVals == {1}

(***************************************************************************)
(* Block store (lib/models/CalendarBlock.js): count, tip, scans, create.   *)
(***************************************************************************)
StoreCount == Cardinality(blocks)

\* the blocks this run has written (a block the store held at startup
\* carries an earlier time) stay below the bound of the model
StoreRoom == Cardinality({b \in blocks : b.time >= 0}) < MaxBlocks

\* findOne({ order: [['id', 'DESC']] })
StoreTip ==
  IF blocks = {} THEN NULL
  ELSE CHOOSE b \in blocks : \A c \in blocks : c.id <= b.id

\* create(b) is refused when the id exists or prevHash is not the tip's hash
StoreAccepts(b) ==
  /\ \A c \in blocks : c.id # b.id
  /\ blocks # {} => b.prevHash = StoreTip.hash

(***************************************************************************)
(* Consul locks.  Every lock object of every stack is created from         *)
(* lockOpts and so names the same key.                                     *)
(***************************************************************************)
\* a variant with one key per lock object
LockKeyPerLock(n) == n

LockKeyOf(n) == "CALENDAR_LOCK_KEY"
LockKeys == {LockKeyOf(n) : n \in LockNames}

\* acquireLockAsync, first attempt: lock.acquire() when the lock object is
\* free, otherwise the retry loop stays pending
CanRequest(s, n) == lock[s][n] = "idle" \/ pending[s][n] < MaxPending
RequestLock(s, n) ==
  IF lock[s][n] = "idle"
  THEN /\ lock' = [lock EXCEPT ![s][n] = "waiting"]
       /\ UNCHANGED pending
  ELSE /\ pending' = [pending EXCEPT ![s][n] = @ + 1]
       /\ UNCHANGED lock

\* acquireLockAsync, a later attempt of the retry loop
RetryAcquire(s, n) ==
  /\ pending[s][n] > 0
  /\ lock[s][n] = "idle"
  /\ lock' = [lock EXCEPT ![s][n] = "waiting"]
  /\ pending' = [pending EXCEPT ![s][n] = @ - 1]
  /\ UNCHANGED <<apiVars, envVars, auditVars, now, blocks, keyHolder, connVars, outState, gen, calVars,
                 nistVars, ancVars, confVars, rewVars>>

\* Consul grants the key to a waiting lock object: the 'acquire' event
Grantable(s, n) ==
  /\ lock[s][n] = "waiting"
  /\ keyHolder[LockKeyOf(n)] = NoHolder
Grant(s, n) ==
  /\ keyHolder' = [keyHolder EXCEPT ![LockKeyOf(n)] = <<s, n>>]
  /\ lock' = [lock EXCEPT ![s][n] = "held"]
  /\ UNCHANGED pending

\* lock.release() and the 'release' / 'end' events
Release(s, n) ==
  /\ keyHolder' = [keyHolder EXCEPT ![LockKeyOf(n)] = NoHolder]
  /\ lock' = [lock EXCEPT ![s][n] = "idle"]
  /\ UNCHANGED pending

\* the 'acquire' event directly followed by release() in the same callback
GrantAndRelease(s, n) ==
  /\ lock' = [lock EXCEPT ![s][n] = "idle"]
  /\ UNCHANGED <<keyHolder, pending>>

(***************************************************************************)
(* Block creation.                                                         *)
(***************************************************************************)
\* a variant that leaves one id out
NewIdSkips(prevBlock) == prevBlock.id + 2

\* parseInt(prevBlock.id, 10) + 1
NewId(prevBlock) == prevBlock.id + 1
\* the hash a new block chains to
PrevHashOf(prevBlock) == prevBlock.hash

\* variants: a first block numbered 1, a first block without its dataId
createGenesisBlockAtOne(s) == BuildBlock(s, now, 1, "gen", "0", zeroStr, zeroStr)
createGenesisBlockBlank(s) == BuildBlock(s, now, 0, "gen", "", zeroStr, zeroStr)

\* createGenesisBlockAsync
createGenesisBlock(s) == BuildBlock(s, now, 0, "gen", "0", zeroStr, zeroStr)

\* a variant that numbers every cal block '0'
CalDataIdZero(newId) == "0"

\* newId.toString()
CalDataId(newId) == ToString(newId)
createCalendarBlock(s, prevBlock, root) ==
  BuildBlock(s, now, NewId(prevBlock), "cal", CalDataId(NewId(prevBlock)), root,
             PrevHashOf(prevBlock))

(***************************************************************************)
(* Startup and the genesis lock handler.                                   *)
(***************************************************************************)
\* openStorageConnectionAsync: the pre-check of the block count
NeedsGenesis(blockCount) == blockCount = 0

Startup(s) ==
  /\ proc[s] = "down"
  /\ proc' = [proc EXCEPT ![s] = "storage"]
  /\ IF NeedsGenesis(StoreCount)
     THEN RequestLock(s, "genesis")
     ELSE UNCHANGED <<lock, pending>>
  /\ UNCHANGED <<apiVars, envVars, auditVars, now, blocks, keyHolder, amqpChannel, outState, gen, calVars,
                 nistVars, ancVars, confVars, rewVars>>

GenesisAcquired(s) ==
  /\ Grantable(s, "genesis")
  /\ Grant(s, "genesis")
  /\ gen' = [gen EXCEPT ![s] = "count"]
  /\ UNCHANGED <<apiVars, envVars, auditVars, now, blocks, connVars, outState, calVars, nistVars, ancVars,
                 confVars, rewVars>>

\* blockCount = await CalendarBlock.count()
GenesisCount(s) ==
  /\ gen[s] = "count"
  /\ IF NeedsGenesis(StoreCount)
     THEN /\ gen' = [gen EXCEPT ![s] = "write"]
          /\ UNCHANGED lockVars
     ELSE /\ gen' = [gen EXCEPT ![s] = "idle"]
          /\ Release(s, "genesis")
  /\ UNCHANGED <<apiVars, envVars, auditVars, now, blocks, connVars, outState, calVars, nistVars, ancVars,
                 confVars, rewVars>>

\* await createGenesisBlockAsync(), then finally release
GenesisWrite(s) ==
  /\ gen[s] = "write"
  /\ StoreAccepts(createGenesisBlock(s))
  /\ StoreRoom
  /\ blocks' = blocks \cup {createGenesisBlock(s)}
  /\ gen' = [gen EXCEPT ![s] = "idle"]
  /\ Release(s, "genesis")
  /\ UNCHANGED <<apiVars, envVars, auditVars, now, connVars, outState, calVars, nistVars, ancVars, confVars,
                 rewVars>>

\* the count or the create throws: logged, then finally release
GenesisFail(s) ==
  /\ gen[s] \in {"count", "write"}
  /\ gen' = [gen EXCEPT ![s] = "idle"]
  /\ Release(s, "genesis")
  /\ UNCHANGED <<apiVars, envVars, auditVars, now, blocks, connVars, outState, calVars, nistVars, ancVars,
                 confVars, rewVars>>

(***************************************************************************)
(* Bus connection of a stack, and the clock.                               *)
(***************************************************************************)
\* openRMQConnectionAsync: amqpChannel = chan; the first connection of a
\* process is followed by scheduleActionsAsync
ConnOpen(s) ==
  /\ proc[s] \in {"storage", "running"}
  /\ ~amqpChannel[s]
  /\ amqpChannel' = [amqpChannel EXCEPT ![s] = TRUE]
  /\ proc' = [proc EXCEPT ![s] = "running"]
  /\ UNCHANGED <<apiVars, envVars, auditVars, now, blocks, lockVars, outState, gen, calVars, nistVars,
                 ancVars, confVars, rewVars>>

\* conn.on('close'): amqpChannel = null; AGGREGATION_ROOTS = []
ConnClose(s) ==
  /\ amqpChannel[s]
  /\ amqpChannel' = [amqpChannel EXCEPT ![s] = FALSE]
  /\ AGGREGATION_ROOTS' = [AGGREGATION_ROOTS EXCEPT ![s] = <<>>]
  /\ aggIn' = [m \in DOMAIN aggIn |->
                IF aggIn[m].to = s THEN [aggIn[m] EXCEPT !.lost = TRUE]
                ELSE aggIn[m]]
  /\ UNCHANGED <<apiVars, envVars, auditVars, now, blocks, lockVars, proc, outState, gen, settle, cal,
                 calq, calDone, nistVars, ancVars, confVars, rewVars>>

Tick ==
  /\ now < MaxTime
  /\ now' = now + 1
  /\ UNCHANGED <<apiVars, envVars, auditVars, blocks, lockVars, connVars, outState, gen, calVars, nistVars,
                 ancVars, confVars, rewVars>>

(***************************************************************************)
(* Calendar writer.                                                        *)
(***************************************************************************)
SeqToSet(q) == {q[i] : i \in DOMAIN q}
RemoveAt(q, i) == [j \in 1..(Len(q) - 1) |-> IF j < i THEN q[j] ELSE q[j + 1]]

\* amqpChannel.ack / amqpChannel.nack for every message of a tick
CanSettle(msgs) == \A m \in msgs : Len(settle[m]) < MaxSettle
SettleAll(msgs, how) ==
  [m \in DOMAIN settle |-> IF m \in msgs THEN Append(settle[m], how) ELSE settle[m]]

\* consumeAggRootMessage: parse the message, keep its handle, push
consumeAggRootMessage(s, r) ==
  /\ proc[s] = "running"
  /\ amqpChannel[s]
  /\ Len(aggIn) < MaxAgg
  /\ LET m == Len(aggIn) + 1
         content == [agg_id |-> m, agg_root |-> HexStr(<<Lit("r" \o ToString(r))>>)]
     IN /\ aggIn' = Append(aggIn, [agg_id |-> content.agg_id,
                                  agg_root |-> content.agg_root,
                                  to |-> s, lost |-> FALSE])
        /\ AGGREGATION_ROOTS' =
             [AGGREGATION_ROOTS EXCEPT ![s] =
                Append(@, [agg_id |-> content.agg_id, agg_root |-> content.agg_root,
                           msg |-> m])]
  /\ UNCHANGED <<apiVars, envVars, auditVars, now, blocks, lockVars, connVars, outState, gen, settle, cal,
                 calq, calDone, nistVars, ancVars, confVars, rewVars>>

\* consumeAggRootMessage for a message the broker delivers again: a nack
\* puts the message back on the queue, and the redelivery has the content
\* of the first delivery and a handle of its own
AggRedelivered(s, m) ==
  /\ proc[s] = "running"
  /\ amqpChannel[s]
  /\ Len(aggIn) < MaxAgg
  /\ m \in DOMAIN aggIn
  /\ aggIn[m].to = s
  /\ "nack" \in SeqToSet(settle[m])
  /\ \A d \in DOMAIN aggIn : d > m => aggIn[d].agg_id # aggIn[m].agg_id
  /\ aggIn' = Append(aggIn, [aggIn[m] EXCEPT !.lost = FALSE])
  /\ AGGREGATION_ROOTS' =
       [AGGREGATION_ROOTS EXCEPT ![s] =
          Append(@, [agg_id |-> aggIn[m].agg_id, agg_root |-> aggIn[m].agg_root,
                     msg |-> Len(aggIn) + 1])]
  /\ UNCHANGED <<apiVars, envVars, auditVars, now, blocks, lockVars, connVars, outState, gen, settle, cal,
                 calq, calDone, nistVars, ancVars, confVars, rewVars>>

\* a variant that waits for a second root
CalendarJobWantsTwo(buffer) == Len(buffer) > 1

\* the calendarLock job of the scheduler
CalendarJobWants(buffer) == Len(buffer) > 0
CalendarJob(s) ==
  /\ proc[s] = "running"
  /\ CalendarJobWants(AGGREGATION_ROOTS[s])
  /\ CanRequest(s, "calendar")
  /\ RequestLock(s, "calendar")
  /\ UNCHANGED <<apiVars, envVars, auditVars, now, blocks, keyHolder, connVars, outState, gen, calVars,
                 nistVars, ancVars, confVars, rewVars>>

\* a variant that does not look at the number of roots
generateCalendarTreeUnchecked(rootsForTree) ==
  [cal_root |-> HexStr(<<>>),
   proofData |-> [x \in 1..Len(rootsForTree) |->
                    [agg_id |-> rootsForTree[x].agg_id,
                     agg_msg |-> rootsForTree[x].msg, proof |-> <<>>]]]

generateCalendarTree(rootsForTree) ==
  IF Len(rootsForTree) > 0
  THEN LET leaves == [i \in 1..Len(rootsForTree) |-> rootsForTree[i].agg_root]
       IN [cal_root |-> MerkleRootHex(leaves),
           proofData |->
             [x \in 1..Len(leaves) |->
                [agg_id |-> rootsForTree[x].agg_id,
                 agg_msg |-> rootsForTree[x].msg,
                 proof |-> formatAsChainpointV3Ops(MerkleProof(leaves, x), "sha-256")]]]
  ELSE NULL

TreeMessages(treeDataObj) ==
  {treeDataObj.proofData[i].agg_msg : i \in DOMAIN treeDataObj.proofData}

CalIdle(outcome) ==
  [pc |-> "idle", rootsForTree |-> <<>>, attempt |-> 0, prevBlock |-> NULL,
   last |-> outcome]

\* a variant that puts the snapshot behind the later arrivals
ReturnRootsBehind(rootsForTree, buffer) == buffer \o rootsForTree

\* the catch of the calendarLock handler: the snapshot goes back to the buffer
ReturnRoots(rootsForTree, buffer) == rootsForTree \o buffer

\* the 'acquire' event of calendarLock: snapshot, build the tree, and either
\* enter the retry loop or release at once
CalendarAcquired(s) ==
  /\ Grantable(s, "calendar")
  /\ AGGREGATION_ROOTS' = [AGGREGATION_ROOTS EXCEPT ![s] = <<>>]
  /\ IF generateCalendarTree(AGGREGATION_ROOTS[s]) = NULL
     THEN /\ GrantAndRelease(s, "calendar")
          /\ cal' = [cal EXCEPT ![s] = CalIdle("empty")]
     ELSE /\ Grant(s, "calendar")
          /\ cal' = [cal EXCEPT ![s] =
                       [pc |-> "persist", rootsForTree |-> AGGREGATION_ROOTS[s],
                        attempt |-> 0, prevBlock |-> NULL, last |-> @.last]]
  /\ UNCHANGED <<apiVars, envVars, auditVars, now, blocks, connVars, outState, gen, aggIn, settle, calq,
                 calDone, nistVars, ancVars, confVars, rewVars>>

\* an attempt of persistCalendarTreeAsync threw: retry, or give up and run
\* the catch and the finally of the handler
CalAttemptFailed(s) ==
  IF cal[s].attempt < MaxRetries
  THEN /\ cal' = [cal EXCEPT ![s].pc = "persist", ![s].attempt = @ + 1,
                             ![s].prevBlock = NULL]
       /\ UNCHANGED <<AGGREGATION_ROOTS, lockVars>>
  ELSE /\ cal' = [cal EXCEPT ![s] = CalIdle("failed")]
       /\ AGGREGATION_ROOTS' =
            [AGGREGATION_ROOTS EXCEPT ![s] = ReturnRoots(cal[s].rootsForTree, @)]
       /\ Release(s, "calendar")

\* persistCalendarTreeAsync up to the answer of findOne
CalPersist(s) ==
  /\ cal[s].pc = "persist"
  /\ LET msgs == TreeMessages(generateCalendarTree(cal[s].rootsForTree))
     IN IF ~amqpChannel[s]
        THEN /\ CalAttemptFailed(s)
             /\ UNCHANGED settle
        ELSE IF StoreTip = NULL
        THEN /\ CanSettle(msgs)
             /\ settle' = SettleAll(msgs, "nack")
             /\ CalAttemptFailed(s)
        ELSE /\ cal' = [cal EXCEPT ![s].pc = "write", ![s].prevBlock = StoreTip]
             /\ UNCHANGED <<settle, AGGREGATION_ROOTS, lockVars>>
  /\ UNCHANGED <<apiVars, envVars, auditVars, now, blocks, connVars, outState, gen, aggIn, calq, calDone,
                 nistVars, ancVars, confVars, rewVars>>

CalNewBlock(s) ==
  createCalendarBlock(s, cal[s].prevBlock,
                      generateCalendarTree(cal[s].rootsForTree).cal_root)

\* CalendarBlock.create succeeded: setImmediate(queueCalStateDataAsync), then
\* finally release
CalWriteOk(s) ==
  /\ cal[s].pc = "write"
  /\ StoreAccepts(CalNewBlock(s))
  /\ StoreRoom
  /\ blocks' = blocks \cup {CalNewBlock(s)}
  /\ calq' = [calq EXCEPT ![s] =
                Append(@, [roots |-> cal[s].rootsForTree, block |-> CalNewBlock(s),
                           x |-> 1])]
  /\ cal' = [cal EXCEPT ![s] = CalIdle("committed")]
  /\ Release(s, "calendar")
  /\ UNCHANGED <<apiVars, envVars, auditVars, now, connVars, outState, gen, AGGREGATION_ROOTS, aggIn, settle,
                 calDone, nistVars, ancVars, confVars, rewVars>>

\* CalendarBlock.create (or findOne) threw: nack every message of the tick
\* and rethrow; with amqpChannel null the nack itself throws
CalWriteFail(s) ==
  /\ cal[s].pc = "write"
  /\ LET msgs == TreeMessages(generateCalendarTree(cal[s].rootsForTree))
     IN IF amqpChannel[s]
        THEN /\ CanSettle(msgs)
             /\ settle' = SettleAll(msgs, "nack")
        ELSE UNCHANGED settle
  /\ CalAttemptFailed(s)
  /\ UNCHANGED <<apiVars, envVars, auditVars, now, blocks, connVars, outState, gen, aggIn, calq, calDone,
                 nistVars, ancVars, confVars, rewVars>>

\* a variant whose second op carries the hash of the block itself
CalExtensionOpsOwnHash(block) ==
  <<[k |-> "l", val |-> Txt(BlockPrefixString(block))],
    [k |-> "r", val |-> block.hash],
    [k |-> "op", val |-> Txt("sha-256")]>>

\* the three ops binding cal_root to the block hash
CalExtensionOps(block) ==
  <<[k |-> "l", val |-> Txt(BlockPrefixString(block))],
    [k |-> "r", val |-> block.prevHash],
    [k |-> "op", val |-> Txt("sha-256")]>>

CalStateObj(s, roots, block, x) ==
  [type |-> "cal",
   agg_id |-> generateCalendarTree(roots).proofData[x].agg_id,
   cal_id |-> block.id,
   ops |-> generateCalendarTree(roots).proofData[x].proof \o CalExtensionOps(block),
   anchor |-> [anchor_id |-> block.id,
               uris |-> <<StackId(s) \o "/calendar/" \o ToString(block.id) \o "/hash">>]]

\* a variant that leaves the loop after the first publish
CalLoopOverAtOnce(x, n) == TRUE

\* the publish loop of queueCalStateDataAsync is over after the x-th publish
CalLoopOver(x, n) == x = n

\* queueCalStateDataAsync: one sendToQueue; after the last one, ack all
CalPublish(s, i) ==
  /\ i \in DOMAIN calq[s]
  /\ LET task == calq[s][i]
         tree == generateCalendarTree(task.roots)
         n == Len(tree.proofData)
     IN IF ~amqpChannel[s]
        THEN \* sendToQueue and then nack throw on the null channel
             /\ calq' = [calq EXCEPT ![s] = RemoveAt(@, i)]
             /\ calDone' = [calDone EXCEPT ![s] =
                              [roots |-> task.roots, block |-> task.block,
                               outcome |-> "aborted"]]
             /\ UNCHANGED <<outState, settle>>
        ELSE /\ outState' = Append(outState, CalStateObj(s, task.roots, task.block, task.x))
             /\ IF CalLoopOver(task.x, n)
                THEN /\ CanSettle(TreeMessages(tree))
                     /\ settle' = SettleAll(TreeMessages(tree), "ack")
                     /\ calq' = [calq EXCEPT ![s] = RemoveAt(@, i)]
                     /\ calDone' = [calDone EXCEPT ![s] =
                                      [roots |-> task.roots, block |-> task.block,
                                       outcome |-> "acked"]]
                ELSE /\ calq' = [calq EXCEPT ![s][i].x = @ + 1]
                     /\ UNCHANGED <<settle, calDone>>
  /\ UNCHANGED <<apiVars, envVars, auditVars, now, blocks, lockVars, connVars, gen, AGGREGATION_ROOTS, aggIn,
                 cal, nistVars, ancVars, confVars, rewVars>>

\* queueCalStateDataAsync: sendToQueue throws: nack all and return
CalPublishFail(s, i) ==
  /\ i \in DOMAIN calq[s]
  /\ amqpChannel[s]
  /\ LET task == calq[s][i]
         msgs == TreeMessages(generateCalendarTree(task.roots))
     IN /\ CanSettle(msgs)
        /\ settle' = SettleAll(msgs, "nack")
        /\ calDone' = [calDone EXCEPT ![s] =
                         [roots |-> task.roots, block |-> task.block,
                          outcome |-> "nacked"]]
  /\ calq' = [calq EXCEPT ![s] = RemoveAt(@, i)]
  /\ UNCHANGED <<apiVars, envVars, auditVars, now, blocks, lockVars, connVars, outState, gen,
                 AGGREGATION_ROOTS, aggIn, cal, nistVars, ancVars, confVars, rewVars>>

(***************************************************************************)
(* Leader election and the NIST block handler.                             *)
(***************************************************************************)
\* leaderElection 'gainedLeadership': Consul elects one instance at a time
GainLeadership(s) ==
  /\ proc[s] # "down"
  /\ \A t \in Stacks : ~IS_LEADER[t]
  /\ IS_LEADER' = [IS_LEADER EXCEPT ![s] = TRUE]
  /\ UNCHANGED <<apiVars, envVars, auditVars, now, blocks, lockVars, connVars, outState, gen, calVars,
                 nistLatest, nist, ancVars, confVars, rewVars>>

\* leaderElection 'error': the election session was invalidated
LoseLeadership(s) ==
  /\ IS_LEADER[s]
  /\ IS_LEADER' = [IS_LEADER EXCEPT ![s] = FALSE]
  /\ UNCHANGED <<apiVars, envVars, auditVars, now, blocks, lockVars, connVars, outState, gen, calVars,
                 nistLatest, nist, ancVars, confVars, rewVars>>

\* the value of the NIST key: "<epoch timestamp>:<hex value>"
NistValue(v) == [ts |-> "150000000" \o ToString(v),
                 val |-> HexStr(<<Lit("nist" \o ToString(v))>>)]

\* nistWatch 'change'
NistChange(s, v) ==
  /\ proc[s] = "running"
  /\ nistLatest[s] # NistValue(v)
  /\ nistLatest' = [nistLatest EXCEPT ![s] = NistValue(v)]
  /\ UNCHANGED <<apiVars, envVars, auditVars, now, blocks, lockVars, connVars, outState, gen, calVars,
                 IS_LEADER, nist, ancVars, confVars, rewVars>>

\* the nistLock job of the scheduler
NistJob(s) ==
  /\ proc[s] = "running"
  /\ IS_LEADER[s]
  /\ nistLatest[s] # NULL
  /\ CanRequest(s, "nist")
  /\ RequestLock(s, "nist")
  /\ UNCHANGED <<apiVars, envVars, auditVars, now, blocks, keyHolder, connVars, outState, gen, calVars,
                 nistVars, ancVars, confVars, rewVars>>

WriterIdle == [pc |-> "idle", attempt |-> 0, prevBlock |-> NULL]

createNistBlock(s, prevBlock, nistDataObj) ==
  BuildBlock(s, now, NewId(prevBlock), "nist", nistDataObj.ts, nistDataObj.val,
             PrevHashOf(prevBlock))

NistAcquired(s) ==
  /\ Grantable(s, "nist")
  /\ Grant(s, "nist")
  /\ nist' = [nist EXCEPT ![s] = [pc |-> "read", attempt |-> 0, prevBlock |-> NULL]]
  /\ UNCHANGED <<apiVars, envVars, auditVars, now, blocks, connVars, outState, gen, calVars, IS_LEADER,
                 nistLatest, ancVars, confVars, rewVars>>

\* an attempt of createNistBlockAsync threw: retry, or log and release
NistAttemptFailed(s) ==
  IF nist[s].attempt < MaxRetries
  THEN /\ nist' = [nist EXCEPT ![s] = [pc |-> "read", attempt |-> @.attempt + 1,
                                       prevBlock |-> NULL]]
       /\ UNCHANGED lockVars
  ELSE /\ nist' = [nist EXCEPT ![s] = WriterIdle]
       /\ Release(s, "nist")

\* createNistBlockAsync up to the answer of findOne
NistRead(s) ==
  /\ nist[s].pc = "read"
  /\ IF StoreTip = NULL
     THEN NistAttemptFailed(s)
     ELSE /\ nist' = [nist EXCEPT ![s].pc = "write", ![s].prevBlock = StoreTip]
          /\ UNCHANGED lockVars
  /\ UNCHANGED <<apiVars, envVars, auditVars, now, blocks, connVars, outState, gen, calVars, IS_LEADER,
                 nistLatest, ancVars, confVars, rewVars>>

NistWriteOk(s) ==
  /\ nist[s].pc = "write"
  /\ StoreAccepts(createNistBlock(s, nist[s].prevBlock, nistLatest[s]))
  /\ StoreRoom
  /\ blocks' = blocks \cup {createNistBlock(s, nist[s].prevBlock, nistLatest[s])}
  /\ nist' = [nist EXCEPT ![s] = WriterIdle]
  /\ Release(s, "nist")
  /\ UNCHANGED <<apiVars, envVars, auditVars, now, connVars, outState, gen, calVars, IS_LEADER, nistLatest,
                 ancVars, confVars, rewVars>>

NistWriteFail(s) ==
  /\ nist[s].pc = "write"
  /\ NistAttemptFailed(s)
  /\ UNCHANGED <<apiVars, envVars, auditVars, now, blocks, connVars, outState, gen, calVars, IS_LEADER,
                 nistLatest, ancVars, confVars, rewVars>>

(***************************************************************************)
(* Anchor engine: the btc-anchor lock handler.                             *)
(***************************************************************************)
\* lastBtcAnchorBlockIdForStackIdAsync
LastBtcAnchorBlockIdForStack(s) ==
  LET mine == {b \in blocks : b.type = "btc-a" /\ b.stackId = StackId(s)}
  IN IF mine = {} THEN NULL
     ELSE JsInt((CHOOSE b \in mine : \A c \in mine : c.id <= b.id).id)

\* the btcAnchorLock job of the scheduler: look the id up, then ask for the lock
AnchorJob(s) ==
  /\ proc[s] = "running"
  /\ ANCHOR_BTC = "enabled"
  /\ CanRequest(s, "btc-anchor")
  /\ lastBtcAnchorBlockId' =
       [lastBtcAnchorBlockId EXCEPT ![s] = LastBtcAnchorBlockIdForStack(s)]
  /\ RequestLock(s, "btc-anchor")
  /\ UNCHANGED <<apiVars, envVars, auditVars, now, blocks, keyHolder, connVars, outState, gen, calVars,
                 nistVars, anc, ancq, outBtcTx, confVars, rewVars>>

\* the job's lookup throws: lastBtcAnchorBlockId = null and no lock request
AnchorJobLookupFails(s) ==
  /\ proc[s] = "running"
  /\ ANCHOR_BTC = "enabled"
  /\ lastBtcAnchorBlockId[s] # NULL
  /\ lastBtcAnchorBlockId' = [lastBtcAnchorBlockId EXCEPT ![s] = NULL]
  /\ UNCHANGED <<apiVars, envVars, auditVars, now, blocks, lockVars, connVars, outState, gen, calVars,
                 nistVars, anc, ancq, outBtcTx, confVars, rewVars>>

\* if (!lastBtcAnchorBlockId) lastBtcAnchorBlockId = -1
AnchorFloor(last) == IF last = NULL \/ last.int = 0 THEN JsInt(-1) ELSE last

\* findAll({ where: { id: { [Op.gt]: last } }, order: [['id', 'ASC']] })
RECURSIVE SortById(_)
SortById(bs) ==
  IF bs = {} THEN <<>>
  ELSE LET lo == CHOOSE b \in bs : \A c \in bs : b.id <= c.id
       IN <<lo>> \o SortById(bs \ {lo})
\* a variant that also takes the block numbered last
BlocksSinceInclusive(last) == SortById({b \in blocks : b.id >= last.int})

BlocksSince(last) == SortById({b \in blocks : b.id > last.int})

AnchorIdle(outcome) ==
  [pc |-> "idle", attempt |-> 0, found |-> <<>>, prevBlock |-> NULL,
   last |-> outcome]

\* anchor_btc_agg_id = uuidv1(): a value no earlier published anchor carries
AnchorUuid(s, found, attempt) ==
  "uuid-" \o StackId(s) \o "-" \o ToString(found[Len(found)].id) \o "-"
    \o ToString(attempt)

\* the tree over the hashes of the blocks found, proofs for the cal blocks
AnchorTreeData(s, found, attempt) ==
  LET leaves == [i \in 1..Len(found) |-> found[i].hash]
      calIdx == {i \in 1..Len(found) : found[i].type = "cal"}
  IN [anchor_btc_agg_id |-> AnchorUuid(s, found, attempt),
      anchor_btc_agg_root |-> MerkleRootHex(leaves),
      proofData |->
        [x \in 1..Cardinality(calIdx) |->
           LET i == CHOOSE j \in calIdx :
                      Cardinality({k \in calIdx : k < j}) = x - 1
           IN [cal_id |-> found[i].id,
               proof |-> formatAsChainpointV3Ops(MerkleProof(leaves, i), "sha-256")]]]

createBtcAnchorBlock(s, prevBlock, root) ==
  BuildBlock(s, now, NewId(prevBlock), "btc-a", "", root, PrevHashOf(prevBlock))

AnchorAcquired(s) ==
  /\ Grantable(s, "btc-anchor")
  /\ Grant(s, "btc-anchor")
  /\ anc' = [anc EXCEPT ![s] = [pc |-> "scan", attempt |-> 0, found |-> <<>>,
                                prevBlock |-> NULL, last |-> @.last]]
  /\ UNCHANGED <<apiVars, envVars, auditVars, now, blocks, connVars, outState, gen, calVars, nistVars,
                 lastBtcAnchorBlockId, ancq, outBtcTx, confVars, rewVars>>

\* an attempt of aggregateAndAnchorBTCAsync threw: retry, or log and release
AnchorAttemptFailed(s) ==
  IF anc[s].attempt < MaxRetries
  THEN /\ anc' = [anc EXCEPT ![s] = [pc |-> "scan", attempt |-> @.attempt + 1,
                                     found |-> <<>>, prevBlock |-> NULL,
                                     last |-> @.last]]
       /\ UNCHANGED lockVars
  ELSE /\ anc' = [anc EXCEPT ![s] = AnchorIdle("failed")]
       /\ Release(s, "btc-anchor")

\* a variant that never sees the channel closed
AnchorChannelIgnored(s) == FALSE

\* if (amqpChannel === null) return
AnchorChannelClosed(s) == ~amqpChannel[s]

\* aggregateAndAnchorBTCAsync up to the answer of findOne in
\* createBtcAnchorBlockAsync.  It returns undefined when the channel is null
\* or no block is found; queueBtcAStateDataAsync(undefined) then throws on
\* treeData.proofData before publishing anything.
AnchorScan(s) ==
  /\ anc[s].pc = "scan"
  /\ IF AnchorChannelClosed(s)
     THEN /\ anc' = [anc EXCEPT ![s] = AnchorIdle("nochannel")]
          /\ Release(s, "btc-anchor")
          /\ UNCHANGED lastBtcAnchorBlockId
     ELSE /\ lastBtcAnchorBlockId' =
               [lastBtcAnchorBlockId EXCEPT ![s] = AnchorFloor(@)]
          /\ IF BlocksSince(AnchorFloor(lastBtcAnchorBlockId[s])) = <<>>
             THEN /\ anc' = [anc EXCEPT ![s] = AnchorIdle("quiet")]
                  /\ Release(s, "btc-anchor")
             ELSE /\ anc' = [anc EXCEPT ![s].pc = "write",
                               ![s].found = BlocksSince(AnchorFloor(lastBtcAnchorBlockId[s])),
                               ![s].prevBlock = StoreTip]
                  /\ UNCHANGED lockVars
  /\ UNCHANGED <<apiVars, envVars, auditVars, now, blocks, connVars, outState, gen, calVars, nistVars, ancq,
                 outBtcTx, confVars, rewVars>>

AnchorNewBlock(s) ==
  createBtcAnchorBlock(s, anc[s].prevBlock,
     AnchorTreeData(s, anc[s].found, anc[s].attempt).anchor_btc_agg_root)

\* the btc-a block is written: setImmediate(queueBtcAStateDataAsync), release
AnchorWriteOk(s) ==
  /\ anc[s].pc = "write"
  /\ StoreAccepts(AnchorNewBlock(s))
  /\ StoreRoom
  /\ blocks' = blocks \cup {AnchorNewBlock(s)}
  /\ ancq' = [ancq EXCEPT ![s] =
                Append(@, [treeData |-> AnchorTreeData(s, anc[s].found, anc[s].attempt),
                           x |-> 1])]
  /\ anc' = [anc EXCEPT ![s] = AnchorIdle("anchored")]
  /\ Release(s, "btc-anchor")
  /\ UNCHANGED <<apiVars, envVars, auditVars, now, connVars, outState, gen, calVars, nistVars,
                 lastBtcAnchorBlockId, outBtcTx, confVars, rewVars>>

AnchorWriteFail(s) ==
  /\ anc[s].pc = "write"
  /\ AnchorAttemptFailed(s)
  /\ UNCHANGED <<apiVars, envVars, auditVars, now, blocks, connVars, outState, gen, calVars, nistVars,
                 lastBtcAnchorBlockId, ancq, outBtcTx, confVars, rewVars>>

AnchorStateObj(treeData, x) ==
  [type |-> "anchor_btc_agg",
   cal_id |-> treeData.proofData[x].cal_id,
   anchor_btc_agg_id |-> treeData.anchor_btc_agg_id,
   ops |-> treeData.proofData[x].proof]

\* a variant whose loop over proofData is never entered
AnchorSegmentsSkipped(task) == FALSE

\* for (let x = 0; x < treeData.proofData.length; x++)
AnchorSegmentsLeft(task) == task.x <= Len(task.treeData.proofData)

\* queueBtcAStateDataAsync: one sendToQueue per step; the segments first,
\* then the btctx request
AnchorPublish(s, i) ==
  /\ i \in DOMAIN ancq[s]
  /\ LET task == ancq[s][i]
     IN IF ~amqpChannel[s]
        THEN \* sendToQueue throws on the null channel: logged, return
             /\ ancq' = [ancq EXCEPT ![s] = RemoveAt(@, i)]
             /\ UNCHANGED <<outState, outBtcTx>>
        ELSE IF AnchorSegmentsLeft(task)
        THEN /\ outState' = Append(outState, AnchorStateObj(task.treeData, task.x))
             /\ ancq' = [ancq EXCEPT ![s][i].x = @ + 1]
             /\ UNCHANGED outBtcTx
        ELSE /\ outBtcTx' =
                  Append(outBtcTx,
                         [anchor_btc_agg_id |-> task.treeData.anchor_btc_agg_id,
                          anchor_btc_agg_root |-> task.treeData.anchor_btc_agg_root])
             /\ ancq' = [ancq EXCEPT ![s] = RemoveAt(@, i)]
             /\ UNCHANGED outState
  /\ UNCHANGED <<apiVars, envVars, auditVars, now, blocks, lockVars, connVars, gen, calVars, nistVars,
                 lastBtcAnchorBlockId, anc, confVars, rewVars>>

\* queueBtcAStateDataAsync: a sendToQueue throws: logged, return
AnchorPublishFail(s, i) ==
  /\ i \in DOMAIN ancq[s]
  /\ amqpChannel[s]
  /\ ancq' = [ancq EXCEPT ![s] = RemoveAt(@, i)]
  /\ UNCHANGED <<apiVars, envVars, auditVars, now, blocks, lockVars, connVars, outState, gen, calVars,
                 nistVars, lastBtcAnchorBlockId, anc, outBtcTx, confVars, rewVars>>

(***************************************************************************)
(* Bitcoin confirmation: the btc-confirm lock handler.                     *)
(***************************************************************************)
\* the content of a btcmon message
BtcMonContent(m) ==
  [btctx_id |-> "btctx" \o ToString(m),
   btchead_height |-> 500000 + m,
   btchead_root |-> HexStr(<<Lit("btchead" \o ToString(m))>>),
   path |-> <<[side |-> "left", val |-> HexStr(<<Lit("sib" \o ToString(m))>>)]>>]

\* processMessage with every type sent to its consumer, whatever ANCHOR_BTC
processMessageIgnoringEnv(type) ==
  CASE type = "aggregator" -> "consumeAggRootMessage"
    [] type = "btctx" -> "consumeBtcTxMessageAsync"
    [] type = "btcmon" -> "consumeBtcMonMessageAsync"
    [] type = "reward" -> "consumeRewardMessageAsync"
    [] OTHER -> "ack"

\* processMessage: what is done with a message of msg.properties.type
processMessage(type) ==
  CASE type = "aggregator" -> "consumeAggRootMessage"
    [] type = "btctx" -> IF ANCHOR_BTC = "enabled"
                         THEN "consumeBtcTxMessageAsync" ELSE "ack"
    [] type = "btcmon" -> IF ANCHOR_BTC = "enabled"
                          THEN "consumeBtcMonMessageAsync" ELSE "ack"
    [] type = "reward" -> "consumeRewardMessageAsync"
    [] OTHER -> "ack"

MessageTypes == {"aggregator", "btctx", "btcmon", "reward", "other"}

\* the branches of processMessage that ack the message and do nothing else
processMessageAck(s, type) ==
  /\ proc[s] = "running"
  /\ amqpChannel[s]
  /\ processMessage(type) = "ack"
  /\ Len(otherIn) < MaxOther
  /\ otherIn' = Append(otherIn, [type |-> type, to |-> s, settle |-> <<"ack">>])
  /\ UNCHANGED <<apiVars, auditVars, ANCHOR_BTC, btcTxIn, outBtcMon, rmq, now, blocks, lockVars,
                 connVars, outState, gen, calVars, nistVars, ancVars, confVars, rewVars>>

\* The content of the btctx message m as the btc-tx service sends it: the
\* transaction body holds the aggregation root between other bytes.
BtcTxDigit(m) == <<"1", "2", "3", "4">>[m]
BtcTxRoot(m) == <<"r", BtcTxDigit(m)>>
BtcTxBodies(m) == {<<"a">> \o BtcTxRoot(m) \o <<"z">>, BtcTxRoot(m) \o <<"z">>,
                   <<"a", "b">> \o BtcTxRoot(m)}
BtcTxContents(m) ==
  {[anchor_btc_agg_id |-> <<"agg", BtcTxDigit(m)>>, btctx_id |-> <<"tx", BtcTxDigit(m)>>,
    anchor_btc_agg_root |-> BtcTxRoot(m), btctx_body |-> body] :
     body \in BtcTxBodies(m)}

\* String.prototype.indexOf and substr over strings held as sequences;
\* positions count from 0 as in the code
indexOf(str, part) ==
  LET at == {i \in 0..(Len(str) - Len(part)) :
               SubSeq(str, i + 1, i + Len(part)) = part}
  IN IF at = {} THEN -1 ELSE CHOOSE i \in at : \A j \in at : i <= j
substr(str, start, length) ==
  LET from == IF start < 0 THEN IF Len(str) + start < 0 THEN 0 ELSE Len(str) + start
              ELSE start
      upto == IF from + length > Len(str) THEN Len(str) ELSE from + length
  IN IF length <= 0 THEN <<>> ELSE SubSeq(str, from + 1, upto)
substrFrom(str, start) == substr(str, start, Len(str))

\* the state object consumeBtcTxMessageAsync builds from the message
BtcTxStateObj(btcTxObj) ==
  LET anchorBTCAggRoot == btcTxObj.anchor_btc_agg_root
      btctxBody == btcTxObj.btctx_body
      prefix == substr(btctxBody, 0, indexOf(btctxBody, anchorBTCAggRoot))
      suffix == substrFrom(btctxBody, indexOf(btctxBody, anchorBTCAggRoot)
                                        + Len(anchorBTCAggRoot))
  IN [type |-> "btctx",
      anchor_btc_agg_id |-> btcTxObj.anchor_btc_agg_id,
      btctx_id |-> btcTxObj.btctx_id,
      btctx_state |->
        [ops |-> <<[l |-> prefix], [r |-> suffix], [op |-> "sha-256-x2"]>>]]
BtcTxMonitorRequest(btcTxObj) == [tx_id |-> btcTxObj.btctx_id]

\* consumeBtcTxMessageAsync up to its sleep: the message is parsed
consumeBtcTxMessage(s, content) ==
  /\ proc[s] = "running"
  /\ amqpChannel[s]
  /\ processMessage("btctx") = "consumeBtcTxMessageAsync"
  /\ Len(btcTxIn) < MaxBtcTx
  /\ btcTxIn' = Append(btcTxIn, [to |-> s, content |-> content, pc |-> "state",
                                  settle |-> <<>>])
  /\ UNCHANGED <<apiVars, auditVars, ANCHOR_BTC, otherIn, outBtcMon, rmq, now, blocks, lockVars,
                 connVars, outState, gen, calVars, nistVars, ancVars, confVars, rewVars>>

\* a variant that goes on to the monitor request after a failed state publish
BtcTxNextNoReturn(pc, published) == IF pc = "state" THEN "mon" ELSE "done"

\* where the run goes after a sendToQueue: on, or out through the return
\* of the catch block
BtcTxNext(pc, published) ==
  IF published /\ pc = "state" THEN "mon" ELSE "done"

\* what the catch block of a failed sendToQueue does to the message:
\* amqpChannel.nack(msg), which throws when amqpChannel is null
BtcTxCatch(s, m) ==
  IF amqpChannel[s] THEN Append(btcTxIn[m].settle, "nack") ELSE btcTxIn[m].settle

\* consumeBtcTxMessageAsync after its sleep: the state message is published,
\* or the publish fails (ok = FALSE, or the channel is null) and is caught
BtcTxPublishState(s, m, ok) ==
  /\ m \in DOMAIN btcTxIn
  /\ btcTxIn[m].to = s
  /\ btcTxIn[m].pc = "state"
  /\ LET published == amqpChannel[s] /\ ok IN
       /\ outState' = IF published
                       THEN Append(outState, BtcTxStateObj(btcTxIn[m].content))
                       ELSE outState
       /\ btcTxIn' = [btcTxIn EXCEPT ![m].pc = BtcTxNext("state", published),
                                     ![m].settle = IF published THEN @
                                                   ELSE BtcTxCatch(s, m)]
  /\ UNCHANGED <<apiVars, auditVars, ANCHOR_BTC, otherIn, outBtcMon, rmq, now, blocks, lockVars,
                 connVars, gen, calVars, nistVars, ancVars, confVars, rewVars>>

\* consumeBtcTxMessageAsync: the monitor request is published and the message
\* acked, or the publish fails and is caught
BtcTxPublishMon(s, m, ok) ==
  /\ m \in DOMAIN btcTxIn
  /\ btcTxIn[m].to = s
  /\ btcTxIn[m].pc = "mon"
  /\ LET published == amqpChannel[s] /\ ok IN
       /\ outBtcMon' = IF published
                        THEN Append(outBtcMon, BtcTxMonitorRequest(btcTxIn[m].content))
                        ELSE outBtcMon
       /\ btcTxIn' = [btcTxIn EXCEPT ![m].pc = BtcTxNext("mon", published),
                                     ![m].settle = IF published THEN Append(@, "ack")
                                                   ELSE BtcTxCatch(s, m)]
  /\ UNCHANGED <<apiVars, auditVars, ANCHOR_BTC, otherIn, rmq, now, blocks, lockVars,
                 connVars, outState, gen, calVars, nistVars, ancVars, confVars, rewVars>>

(***************************************************************************)
(* node-lib: openStandardRMQConnectionAsync as one caller uses it.  onInit *)
(* and onClose are callbacks that keep what they are given and return.     *)
(***************************************************************************)
RmqIdle == [pc |-> "idle", call |-> 0, conns |-> <<>>, onInit |-> <<>>, onClose |-> <<>>]

\* how an attempt of the loop goes: connect throws; createConfirmChannel
\* throws; assertQueue, prefetch or consume throws on a channel that closed
\* already; or everything up to rmqConnected = true runs
RmqOutcomes == {"refused", "noChannel", "setupThrows", "established"}

UnchangedButRmq ==
  UNCHANGED <<apiVars, auditVars, ANCHOR_BTC, otherIn, btcTxIn, outBtcMon, now, blocks,
              lockVars, connVars, outState, gen, calVars, nistVars, ancVars, confVars,
              rewVars>>

\* a caller calls openStandardRMQConnectionAsync: at its start, or from its
\* onClose after the connection it had was closed
RmqCall ==
  /\ rmq.pc \in {"idle", "closed"}
  /\ rmq' = [rmq EXCEPT !.pc = "connect", !.call = @ + 1]
  /\ UnchangedButRmq

\* a variant that leaves the loop after any attempt
RmqAfterAttemptReturns(outcome) == "returned"

\* while (!rmqConnected): rmqConnected = true ends the loop, the catch
\* sleeps and goes round
RmqAfterAttempt(outcome) == IF outcome = "established" THEN "returned" ELSE "sleep"

\* the connection an attempt leaves behind
RmqConnOf(outcome) ==
  [chan |-> outcome \in {"setupThrows", "established"},
   closeHandler |-> outcome = "established",
   open |-> outcome # "setupThrows"]

\* one turn of the loop of openStandardRMQConnectionAsync
RmqAttempt(outcome) ==
  /\ rmq.pc = "connect"
  /\ LET c == Len(rmq.conns) + 1
     IN rmq' = [rmq EXCEPT
          !.pc = RmqAfterAttempt(outcome),
          !.conns = IF outcome = "refused" THEN @ ELSE Append(@, RmqConnOf(outcome)),
          !.onInit = IF outcome = "established"
                     THEN Append(@, [call |-> rmq.call, chan |-> c]) ELSE @]
  /\ UnchangedButRmq

\* the turn of the loop in which the broker accepts
RmqEstablished == RmqAttempt("established")

\* await utils.sleep(5000) in the catch
RmqSleep ==
  /\ rmq.pc = "sleep"
  /\ rmq' = [rmq EXCEPT !.pc = "connect"]
  /\ UnchangedButRmq

\* the 'close' event of a connection: its handler, when one was registered,
\* calls onClose
RmqConnClosed(c) ==
  /\ c \in DOMAIN rmq.conns
  /\ rmq.conns[c].open
  /\ rmq' = [rmq EXCEPT
       !.conns[c].open = FALSE,
       !.onClose = IF rmq.conns[c].closeHandler THEN Append(@, c) ELSE @,
       !.pc = IF rmq.conns[c].closeHandler /\ @ = "returned" THEN "closed" ELSE @]
  /\ UnchangedButRmq

\* consumeBtcMonMessageAsync: push the message, ask for the lock
consumeBtcMonMessage(s) ==
  /\ proc[s] = "running"
  /\ amqpChannel[s]
  /\ processMessage("btcmon") = "consumeBtcMonMessageAsync"
  /\ Len(monIn) < MaxMon
  /\ CanRequest(s, "btc-confirm")
  /\ monIn' = Append(monIn, BtcMonContent(Len(monIn) + 1))
  /\ BTC_MON_MESSAGES' = [BTC_MON_MESSAGES EXCEPT ![s] = Append(@, Len(monIn) + 1)]
  /\ RequestLock(s, "btc-confirm")
  /\ UNCHANGED <<apiVars, envVars, auditVars, now, blocks, keyHolder, connVars, outState, gen, calVars,
                 nistVars, ancVars, monSettle, conf, confq, rewVars>>

ConfIdle == [pc |-> "idle", attempt |-> 0, prevBlock |-> NULL,
             monMessagesToProcess |-> <<>>, x |-> 0]

createBtcConfirmBlock(s, prevBlock, height, root) ==
  BuildBlock(s, now, NewId(prevBlock), "btc-c", ToString(height), root,
             PrevHashOf(prevBlock))

\* 'acquire': monMessagesToProcess = BTC_MON_MESSAGES.splice(0)
ConfirmAcquired(s) ==
  /\ Grantable(s, "btc-confirm")
  /\ BTC_MON_MESSAGES' = [BTC_MON_MESSAGES EXCEPT ![s] = <<>>]
  /\ IF BTC_MON_MESSAGES[s] = <<>>
     THEN /\ GrantAndRelease(s, "btc-confirm")
          /\ UNCHANGED conf
     ELSE /\ Grant(s, "btc-confirm")
          /\ conf' = [conf EXCEPT ![s] =
                        [pc |-> "read", attempt |-> 0, prevBlock |-> NULL,
                         monMessagesToProcess |-> BTC_MON_MESSAGES[s], x |-> 1]]
  /\ UNCHANGED <<apiVars, envVars, auditVars, now, blocks, connVars, outState, gen, calVars, nistVars,
                 ancVars, monIn, monSettle, confq, rewVars>>

ConfMsg(s) == conf[s].monMessagesToProcess[conf[s].x]

\* an attempt of createBtcConfirmBlockAsync threw: retry, or nack the message
\* and leave the loop; nack on a null channel throws before anything is sent
ConfirmAttemptFailed(s) ==
  IF conf[s].attempt < MaxRetries
  THEN /\ conf' = [conf EXCEPT ![s].pc = "read", ![s].attempt = @ + 1,
                               ![s].prevBlock = NULL]
       /\ UNCHANGED <<lockVars, monSettle>>
  ELSE /\ conf' = [conf EXCEPT ![s] = ConfIdle]
       /\ monSettle' = IF amqpChannel[s]
                       THEN Append(monSettle, [m |-> ConfMsg(s), how |-> "nack"])
                       ELSE monSettle
       /\ Release(s, "btc-confirm")

ConfirmRead(s) ==
  /\ conf[s].pc = "read"
  /\ IF StoreTip = NULL
     THEN ConfirmAttemptFailed(s)
     ELSE /\ conf' = [conf EXCEPT ![s].pc = "write", ![s].prevBlock = StoreTip]
          /\ UNCHANGED <<lockVars, monSettle>>
  /\ UNCHANGED <<apiVars, envVars, auditVars, now, blocks, connVars, outState, gen, calVars, nistVars,
                 ancVars, BTC_MON_MESSAGES, monIn, confq, rewVars>>

ConfirmNewBlock(s) ==
  createBtcConfirmBlock(s, conf[s].prevBlock, monIn[ConfMsg(s)].btchead_height,
                        monIn[ConfMsg(s)].btchead_root)

\* the btc-c block is written: setImmediate(queueBtcCStateDataAsync), next
\* message or release
ConfirmWriteOk(s) ==
  /\ conf[s].pc = "write"
  /\ StoreAccepts(ConfirmNewBlock(s))
  /\ StoreRoom
  /\ blocks' = blocks \cup {ConfirmNewBlock(s)}
  /\ confq' = [confq EXCEPT ![s] =
                 Append(@, [msg |-> ConfMsg(s), block |-> ConfirmNewBlock(s)])]
  /\ IF conf[s].x < Len(conf[s].monMessagesToProcess)
     THEN /\ conf' = [conf EXCEPT ![s].pc = "read", ![s].attempt = 0,
                                  ![s].prevBlock = NULL, ![s].x = @ + 1]
          /\ UNCHANGED lockVars
     ELSE /\ conf' = [conf EXCEPT ![s] = ConfIdle]
          /\ Release(s, "btc-confirm")
  /\ UNCHANGED <<apiVars, envVars, auditVars, now, connVars, outState, gen, calVars, nistVars, ancVars,
                 BTC_MON_MESSAGES, monIn, monSettle, rewVars>>

ConfirmWriteFail(s) ==
  /\ conf[s].pc = "write"
  /\ ConfirmAttemptFailed(s)
  /\ UNCHANGED <<apiVars, envVars, auditVars, now, blocks, connVars, outState, gen, calVars, nistVars,
                 ancVars, BTC_MON_MESSAGES, monIn, confq, rewVars>>

BtcCStateObj(s, content, block) ==
  [type |-> "btcmon",
   btctx_id |-> content.btctx_id,
   btchead_height |-> content.btchead_height,
   ops |-> formatAsChainpointV3Ops(content.path, "sha-256-x2"),
   anchor_id |-> ToString(content.btchead_height),
   uris |-> <<StackId(s) \o "/calendar/" \o ToString(block.id) \o "/data">>]

\* queueBtcCStateDataAsync, the publish succeeds: ack
ConfirmPublish(s, i) ==
  /\ i \in DOMAIN confq[s]
  /\ confq' = [confq EXCEPT ![s] = RemoveAt(@, i)]
  /\ IF amqpChannel[s]
     THEN /\ outState' = Append(outState,
                                BtcCStateObj(s, monIn[confq[s][i].msg], confq[s][i].block))
          /\ monSettle' = Append(monSettle, [m |-> confq[s][i].msg, how |-> "ack"])
     ELSE \* sendToQueue and then nack throw on the null channel
          UNCHANGED <<outState, monSettle>>
  /\ UNCHANGED <<apiVars, envVars, auditVars, now, blocks, lockVars, connVars, gen, calVars, nistVars,
                 ancVars, BTC_MON_MESSAGES, monIn, conf, rewVars>>

\* queueBtcCStateDataAsync, the publish throws: nack in the catch block, then
\* the ack after it
ConfirmPublishFail(s, i) ==
  /\ i \in DOMAIN confq[s]
  /\ amqpChannel[s]
  /\ confq' = [confq EXCEPT ![s] = RemoveAt(@, i)]
  /\ monSettle' = monSettle \o <<[m |-> confq[s][i].msg, how |-> "nack"],
                                 [m |-> confq[s][i].msg, how |-> "ack"]>>
  /\ UNCHANGED <<apiVars, envVars, auditVars, now, blocks, lockVars, connVars, outState, gen, calVars,
                 nistVars, ancVars, BTC_MON_MESSAGES, monIn, conf, rewVars>>

(***************************************************************************)
(* Rewards: the reward lock handler.                                       *)
(***************************************************************************)
RewardCores ==
  {NULL, [address |-> "0xcore", amount |-> 2], [address |-> "0xcore", amount |-> 0]}

RewardContent(m, core) ==
  [node |-> [address |-> "0xnode" \o ToString(m), amount |-> 5], core |-> core]

\* a message whose content JSON.parse rejects
NotJson == [notJson |-> TRUE]
JsonParses(content) == content # NotJson

RewardContents(m) == {RewardContent(m, core) : core \in RewardCores} \cup {NotJson}

\* consumeRewardMessageAsync: rewardLatest = msg, ask for the lock
consumeRewardMessage(s, content) ==
  /\ proc[s] = "running"
  /\ amqpChannel[s]
  /\ Len(rewIn) < MaxRew
  /\ CanRequest(s, "reward")
  /\ rewIn' = Append(rewIn, content)
  /\ rewardLatest' = [rewardLatest EXCEPT ![s] = Len(rewIn) + 1]
  /\ RequestLock(s, "reward")
  /\ UNCHANGED <<apiVars, envVars, auditVars, now, blocks, keyHolder, connVars, outState, gen, calVars,
                 nistVars, ancVars, confVars, rewSettle, rew, transfers>>

RewardIdle == [pc |-> "idle", attempt |-> 0, prevBlock |-> NULL, msg |-> 0,
               nodeRewardTxId |-> JsStr(""), coreRewardTxId |-> JsStr("")]

\* Array.prototype.join(':') of two entries; null joins as the empty string
JoinColon(a, b) ==
  JsStr((IF a = NULL THEN "" ELSE a.str) \o ":" \o (IF b = NULL THEN "" ELSE b.str))

\* dataId of the reward block; NULL when the node transfer returned null and
\* there is no core part
RewardDataId(content, nodeTx, coreTx) ==
  IF content.core = NULL THEN nodeTx ELSE JoinColon(nodeTx, coreTx)

RewardDataVal(content) ==
  LET nodePart == JoinColon(JsStr(content.node.address),
                            JsStr(ToString(content.node.amount)))
  IN IF content.core = NULL THEN nodePart
     ELSE JoinColon(JoinColon(nodePart, JsStr(content.core.address)),
                    JsStr(ToString(content.core.amount)))

createRewardBlock(s, prevBlock, dataId, dataVal) ==
  BuildBlock(s, now, NewId(prevBlock), "reward", dataId.str, Txt(dataVal.str),
             PrevHashOf(prevBlock))

\* 'acquire': msg = rewardLatest and JSON.parse of its content, both ahead
\* of the try block: when the parse throws the handler ends there and
\* nothing calls rewardLock.release()
RewardAcquired(s) ==
  /\ Grantable(s, "reward")
  /\ Grant(s, "reward")
  /\ rew' = [rew EXCEPT ![s] = [pc |-> IF JsonParses(rewIn[rewardLatest[s]])
                                       THEN "node" ELSE "thrown",
                                attempt |-> 0, prevBlock |-> NULL,
                                msg |-> rewardLatest[s],
                                nodeRewardTxId |-> JsStr(""),
                                coreRewardTxId |-> JsStr("")]]
  /\ UNCHANGED <<apiVars, envVars, auditVars, now, blocks, connVars, outState, gen, calVars, nistVars,
                 ancVars, confVars, rewardLatest, rewIn, rewSettle, transfers>>

\* a variant that pays the Core operator whenever the message has a core part
RewardWantsCoreIfPresent(content) == content.core # NULL

\* if (coreTNTGrainsRewardShare > 0), the share being core.amount, or 0
\* without a core part
RewardWantsCore(content) ==
  (IF content.core = NULL THEN 0 ELSE content.core.amount) > 0

\* sendTNTRewardAsync to the node: a transaction id, or null when it fails
RewardTransferNode(s, ok) ==
  /\ rew[s].pc = "node"
  /\ LET content == rewIn[rew[s].msg]
     IN /\ transfers' = Append(transfers, [to |-> content.node.address,
                                           value |-> content.node.amount, ok |-> ok,
                                           for |-> rew[s].msg])
        /\ rew' = [rew EXCEPT
                     ![s].nodeRewardTxId =
                        IF ok THEN JsStr("tx" \o ToString(Len(transfers) + 1)) ELSE NULL,
                     ![s].pc = IF RewardWantsCore(content) THEN "core" ELSE "read"]
  /\ UNCHANGED <<apiVars, envVars, auditVars, now, blocks, lockVars, connVars, outState, gen, calVars,
                 nistVars, ancVars, confVars, rewardLatest, rewIn, rewSettle>>

RewardTransferCore(s, ok) ==
  /\ rew[s].pc = "core"
  /\ LET content == rewIn[rew[s].msg]
     IN /\ transfers' = Append(transfers, [to |-> content.core.address,
                                           value |-> content.core.amount, ok |-> ok,
                                           for |-> rew[s].msg])
        /\ rew' = [rew EXCEPT
                     ![s].coreRewardTxId =
                        IF ok THEN JsStr("tx" \o ToString(Len(transfers) + 1)) ELSE NULL,
                     ![s].pc = "read"]
  /\ UNCHANGED <<apiVars, envVars, auditVars, now, blocks, lockVars, connVars, outState, gen, calVars,
                 nistVars, ancVars, confVars, rewardLatest, rewIn, rewSettle>>

\* a variant that nacks the message
RewardFinishNacks(s) ==
  /\ rew' = [rew EXCEPT ![s] = RewardIdle]
  /\ rewSettle' = IF amqpChannel[s]
                  THEN Append(rewSettle, [m |-> rew[s].msg, how |-> "nack"])
                  ELSE rewSettle
  /\ Release(s, "reward")

\* amqpChannel.ack(msg) at the end of the handler, in the try or in the catch
\* block; on a null channel it throws and nothing is sent
RewardFinish(s) ==
  /\ rew' = [rew EXCEPT ![s] = RewardIdle]
  /\ rewSettle' = IF amqpChannel[s]
                  THEN Append(rewSettle, [m |-> rew[s].msg, how |-> "ack"])
                  ELSE rewSettle
  /\ Release(s, "reward")

RewardAttemptFailed(s) ==
  IF rew[s].attempt < MaxRetries
  THEN /\ rew' = [rew EXCEPT ![s].pc = "read", ![s].attempt = @ + 1,
                             ![s].prevBlock = NULL]
       /\ UNCHANGED <<lockVars, rewSettle>>
  ELSE RewardFinish(s)

\* createRewardBlockAsync up to the answer of findOne
RewardRead(s) ==
  /\ rew[s].pc = "read"
  /\ IF StoreTip = NULL
     THEN RewardAttemptFailed(s)
     ELSE /\ rew' = [rew EXCEPT ![s].pc = "write", ![s].prevBlock = StoreTip]
          /\ UNCHANGED <<lockVars, rewSettle>>
  /\ UNCHANGED <<apiVars, envVars, auditVars, now, blocks, connVars, outState, gen, calVars, nistVars,
                 ancVars, confVars, rewardLatest, rewIn, transfers>>

RewardNewDataId(s) ==
  RewardDataId(rewIn[rew[s].msg], rew[s].nodeRewardTxId, rew[s].coreRewardTxId)

RewardNewBlock(s) ==
  createRewardBlock(s, rew[s].prevBlock, RewardNewDataId(s),
                    RewardDataVal(rewIn[rew[s].msg]))

\* dataId.toString() throws when dataId is null
RewardWriteOk(s) ==
  /\ rew[s].pc = "write"
  /\ RewardNewDataId(s) # NULL
  /\ StoreAccepts(RewardNewBlock(s))
  /\ StoreRoom
  /\ blocks' = blocks \cup {RewardNewBlock(s)}
  /\ RewardFinish(s)
  /\ UNCHANGED <<apiVars, envVars, auditVars, now, connVars, outState, gen, calVars, nistVars, ancVars,
                 confVars, rewardLatest, rewIn, transfers>>

RewardWriteFail(s) ==
  /\ rew[s].pc = "write"
  /\ RewardAttemptFailed(s)
  /\ UNCHANGED <<apiVars, envVars, auditVars, now, blocks, connVars, outState, gen, calVars, nistVars,
                 ancVars, confVars, rewardLatest, rewIn, transfers>>

(***************************************************************************)
(* Initial state: empty store, no process started.                         *)
(***************************************************************************)
InitWith(store) ==
  /\ now = 0
  /\ blocks = store
  /\ keyHolder = [k \in LockKeys |-> NoHolder]
  /\ lock = [s \in Stacks |-> [n \in LockNames |-> "idle"]]
  /\ pending = [s \in Stacks |-> [n \in LockNames |-> 0]]
  /\ proc = [s \in Stacks |-> "down"]
  /\ amqpChannel = [s \in Stacks |-> FALSE]
  /\ outState = <<>>
  /\ gen = [s \in Stacks |-> "idle"]
  /\ AGGREGATION_ROOTS = [s \in Stacks |-> <<>>]
  /\ aggIn = <<>>
  /\ settle = [m \in 1..MaxAgg |-> <<>>]
  /\ cal = [s \in Stacks |-> CalIdle("none")]
  /\ calq = [s \in Stacks |-> <<>>]
  /\ calDone = [s \in Stacks |-> NULL]
  /\ IS_LEADER = [s \in Stacks |-> FALSE]
  /\ nistLatest = [s \in Stacks |-> NULL]
  /\ nist = [s \in Stacks |-> WriterIdle]
  /\ lastBtcAnchorBlockId = [s \in Stacks |-> NULL]
  /\ anc = [s \in Stacks |-> AnchorIdle("none")]
  /\ ancq = [s \in Stacks |-> <<>>]
  /\ outBtcTx = <<>>
  /\ BTC_MON_MESSAGES = [s \in Stacks |-> <<>>]
  /\ monIn = <<>>
  /\ monSettle = <<>>
  /\ conf = [s \in Stacks |-> ConfIdle]
  /\ confq = [s \in Stacks |-> <<>>]
  /\ rewardLatest = [s \in Stacks |-> 0]
  /\ rewIn = <<>>
  /\ rewSettle = <<>>
  /\ rew = [s \in Stacks |-> RewardIdle]
  /\ transfers = <<>>

(***************************************************************************)
(* node-api-service, PUT /node.  The clock of Core counts the minutes      *)
(* since 2018-01-10T00:00Z.  Requests are well formed (content type, Node  *)
(* version, address, URI and hmac syntax pass their checks).               *)
(***************************************************************************)
MaxClockTicks == 3

\* The start times of Core: within an hour, before the end of an hour and
\* before the end of a day.
StartMinutes == {28, 58, 1438}

ClockMinutes == UNION {(m .. (m + MaxClockTicks)) : m \in StartMinutes}

Pad2(n) == <<n \div 10, n % 10>>

\* moment().utc().format('YYYYMMDDHHmm') at minute m, as its twelve digits.
format(m) ==
  <<2, 0, 1, 8, 0, 1>> \o Pad2(10 + (m \div 1440))
    \o Pad2((m % 1440) \div 60) \o Pad2(m % 60)

RECURSIVE DigitsToNat(_)
DigitsToNat(digits) ==
  IF digits = <<>> THEN 0
  ELSE 10 * DigitsToNat(SubSeq(digits, 1, Len(digits) - 1))
       + digits[Len(digits)]

RECURSIVE NatToDigits(_)
NatToDigits(n) ==
  IF n < 10 THEN <<n>> ELSE NatToDigits(n \div 10) \o <<n % 10>>

\* The six low digits of a number, zeros included.
LowDigits(n) == [i \in 1..6 |-> (n \div (10 ^ (6 - i))) % 10]

\* parseInt of a string of more than six digits.  The number is held as the
\* pair of its part above 10^6 and its part below.
parseInt(digits) ==
  [hi |-> DigitsToNat(SubSeq(digits, 1, Len(digits) - 6)),
   lo |-> DigitsToNat(SubSeq(digits, Len(digits) - 5, Len(digits)))]

\* formattedDateInt + x
plus(n, x) ==
  LET lo == n.lo + x
  IN IF lo < 0 THEN [hi |-> n.hi - 1, lo |-> lo + 10 ^ 6]
     ELSE IF lo >= 10 ^ 6 THEN [hi |-> n.hi + 1, lo |-> lo - 10 ^ 6]
     ELSE [hi |-> n.hi, lo |-> lo]

\* Number.prototype.toString
toString(n) == NatToDigits(n.hi) \o LowDigits(n.lo)

\* [tnt_addr, public_uri, formattedTimeString].join(''): an undefined or null
\* element joins as the empty string.
hmacTxt(tnt_addr, public_uri, formattedTimeString) ==
  SelectSeq(<<tnt_addr, public_uri, formattedTimeString>>,
            LAMBDA part : part # NULL)

\* crypto.createHmac('sha256', key).update(txt).digest('hex'): different keys
\* or texts give different digests.
createHmac(key, txt) == [hmacKey |-> key, update |-> txt]

acceptableHMACs(regNode, req, clock) ==
  LET formattedDateInt == parseInt(format(clock))
  IN {createHmac(regNode.hmacKey,
                 hmacTxt(req.tnt_addr, req.public_uri,
                         toString(plus(formattedDateInt, x)))) :
        x \in (0 - 1) .. 1}

NodeAddresses == {JsStr("0xa"), JsStr("0xb")}
NodeUris == {NULL, JsStr("http://65.1.1.1"), JsStr("http://65.2.2.2")}
NodeKeys == {"ka", "kx"}
NodeBalances == {"enough", "low", "error"}

\* The rows of the registered-Node table when Core starts.
RegisteredNodeRows ==
  {[tntAddr |-> JsStr("0xa"), publicUri |-> NULL, hmacKey |-> "ka",
    tntCredit |-> 86400],
   [tntAddr |-> JsStr("0xc"), publicUri |-> JsStr("http://65.2.2.2"),
    hmacKey |-> "kc", tntCredit |-> 86400]}

RegisteredNodeFind(tntAddr) == {row \in RegisteredNode : row.tntAddr = tntAddr}

RegisteredNodeCountUri(publicUri, tntAddr) ==
  Cardinality({row \in RegisteredNode :
                 row.publicUri = publicUri /\ row.tntAddr # tntAddr})

\* What a Node sends when its clock shows minute m and it holds key.
NodeRequest(tnt_addr, public_uri, key, m) ==
  [tnt_addr |-> tnt_addr, public_uri |-> public_uri,
   hmac |-> createHmac(key, hmacTxt(tnt_addr, public_uri, format(m)))]

\* the answer of putNodeV1Async to a request that runs alone against a table
\* at a minute of the clock of Core
putNodeStatusIn(table, req, balance, clock) ==
  LET found == {row \in table : row.tntAddr = req.tnt_addr}
  IN IF req.public_uri # NULL
        /\ Cardinality({row \in table : row.publicUri = req.public_uri
                                         /\ row.tntAddr # req.tnt_addr}) >= 1
     THEN "Conflict"
     ELSE IF found = {} THEN "NotFoundError"
     ELSE LET regNode == CHOOSE row \in found : TRUE
          IN IF req.hmac \notin acceptableHMACs(regNode, req, clock)
             THEN "InvalidArgument"
             ELSE IF balance = "low" THEN "Forbidden"
             ELSE IF balance = "error" THEN "InternalServer"
             ELSE "OK"

putNodeStatus(req, balance) ==
  putNodeStatusIn(RegisteredNode, req, balance, utcNow)

putNodeV1Async(tnt_addr, public_uri, key, m, balance) ==
  LET req == NodeRequest(tnt_addr, public_uri, key, m)
      status == putNodeStatus(req, balance)
  IN /\ putNode' = [at |-> utcNow, req |-> req, status |-> status]
     /\ RegisteredNode' =
          IF status = "OK"
          THEN {IF row.tntAddr = req.tnt_addr
                THEN [row EXCEPT !.publicUri = req.public_uri]
                ELSE row : row \in RegisteredNode}
          ELSE RegisteredNode
     /\ UNCHANGED <<utcNow, http, regNodesLimit, envVars, auditVars, now, blocks, lockVars,
                    connVars, outState, gen, calVars, nistVars, ancVars,
                    confVars, rewVars>>

ClockTick ==
  /\ utcNow + 1 \in ClockMinutes
  /\ utcNow' = utcNow + 1
  /\ UNCHANGED <<putNode, RegisteredNode, http, regNodesLimit, envVars, auditVars, now, blocks,
                 lockVars, connVars, outState, gen, calVars, nistVars, ancVars,
                 confVars, rewVars>>

(***************************************************************************)
(* node-api-service, POST /node and PUT /node as the event loop runs them: *)
(* a handler runs up to its next await, and the handlers of other requests *)
(* run in between.  The table is keyed by tntAddr.                         *)
(***************************************************************************)
MaxRequests == 2
MaxLimit == 3

Requests == 1 .. MaxRequests

\* crypto.randomBytes(32).toString('hex')
FreshKeys == {"kb"}

NoRequest ==
  [op |-> "none", pc |-> "free", req |-> NULL, regNode |-> NULL, status |-> "",
   message |-> ""]

\* return next(error), or res.send and return next()
Respond(r, status) ==
  http' = [http EXCEPT ![r] =
    [NoRequest EXCEPT !.op = http[r].op, !.pc = "done", !.status = status]]

CapMessage == "Maximum number of Node registrations has been reached"

Goto(r, pc) == http' = [http EXCEPT ![r].pc = pc]

HasUri(req) == req.public_uri # NULL

\* totalCount >= regNodesLimit, with a cap that is one too high
CapReachedOffByOne(totalCount) == totalCount > regNodesLimit

\* totalCount >= regNodesLimit
CapReached(totalCount) == totalCount >= regNodesLimit

UnchangedCalendar ==
  UNCHANGED <<envVars, auditVars, now, blocks, lockVars, connVars, outState, gen, calVars,
              nistVars, ancVars, confVars, rewVars>>

\* setRegNodesLimit: a count that parses to a number >= 0 becomes the cap,
\* any other value is logged and dropped
updateRegNodesLimit(count) ==
  /\ regNodesLimit' = IF count # NULL /\ count.int >= 0 THEN count.int
                      ELSE regNodesLimit
  /\ UNCHANGED <<utcNow, putNode, RegisteredNode, http>>
  /\ UnchangedCalendar

\* the checks of the content type, of the version header and of the body
\* ahead of the first query, in either handler
ValidationErrors == {"InvalidArgument", "UpgradeRequired"}

\* postNodeV1Async returns at one of its checks of the request
PostNodeRejected(r, error) ==
  /\ http[r].pc \in {"free", "done"}
  /\ http' = [http EXCEPT ![r] =
       [NoRequest EXCEPT !.op = "post", !.pc = "done", !.status = error]]
  /\ UNCHANGED <<utcNow, putNode, RegisteredNode, regNodesLimit>>
  /\ UnchangedCalendar

\* putNodeV1Async returns at one of its checks of the request
PutNodeRejected(r, error) ==
  /\ http[r].pc \in {"free", "done"}
  /\ http' = [http EXCEPT ![r] =
       [NoRequest EXCEPT !.op = "put", !.pc = "done", !.status = error]]
  /\ UNCHANGED <<utcNow, putNode, RegisteredNode, regNodesLimit>>
  /\ UnchangedCalendar

\* postNodeV1Async up to the first count
PostNodeStart(r, tnt_addr, public_uri) ==
  /\ http[r].pc \in {"free", "done"}
  /\ http' = [http EXCEPT ![r] =
       [NoRequest EXCEPT !.op = "post", !.pc = "count1",
          !.req = [tnt_addr |-> tnt_addr, public_uri |-> public_uri]]]
  /\ UNCHANGED <<utcNow, putNode, RegisteredNode, regNodesLimit>>
  /\ UnchangedCalendar

\* RegisteredNode.count() against the cap, before the checks and again
\* before the row is created
PostNodeCountTotal(r) ==
  /\ http[r].op = "post"
  /\ http[r].pc \in {"count1", "count2"}
  /\ IF CapReached(Cardinality(RegisteredNode))
     THEN http' = [http EXCEPT ![r] =
            [NoRequest EXCEPT !.op = "post", !.pc = "done",
               !.status = "Forbidden", !.message = CapMessage]]
     ELSE Goto(r, IF http[r].pc = "count1" THEN "countAddr" ELSE "create")
  /\ UNCHANGED <<utcNow, putNode, RegisteredNode, regNodesLimit>>
  /\ UnchangedCalendar

PostNodeCountAddr(r) ==
  /\ http[r].op = "post"
  /\ http[r].pc = "countAddr"
  /\ IF RegisteredNodeFind(http[r].req.tnt_addr) # {}
     THEN Respond(r, "Conflict")
     ELSE Goto(r, IF HasUri(http[r].req) THEN "countUri" ELSE "balance")
  /\ UNCHANGED <<utcNow, putNode, RegisteredNode, regNodesLimit>>
  /\ UnchangedCalendar

PostNodeCountUri(r) ==
  /\ http[r].op = "post"
  /\ http[r].pc = "countUri"
  /\ IF \E row \in RegisteredNode : row.publicUri = http[r].req.public_uri
     THEN Respond(r, "Conflict")
     ELSE Goto(r, "balance")
  /\ UNCHANGED <<utcNow, putNode, RegisteredNode, regNodesLimit>>
  /\ UnchangedCalendar

\* getTNTGrainsBalanceForAddressAsync of either handler
NodeBalance(r, balance) ==
  /\ http[r].pc = "balance"
  /\ IF balance = "low" THEN Respond(r, "Forbidden")
     ELSE IF balance = "error" THEN Respond(r, "InternalServer")
     ELSE Goto(r, IF http[r].op = "post" THEN "count2" ELSE "save")
  /\ UNCHANGED <<utcNow, putNode, RegisteredNode, regNodesLimit>>
  /\ UnchangedCalendar

\* The table is keyed by the address: the insert of a row whose key is in
\* the table throws.
RegisteredNodeKeyTaken(tntAddr) == RegisteredNodeFind(tntAddr) # {}

\* RegisteredNode.create
PostNodeCreate(r, randHMACKey) ==
  /\ http[r].op = "post"
  /\ http[r].pc = "create"
  /\ IF RegisteredNodeKeyTaken(http[r].req.tnt_addr)
     THEN /\ Respond(r, "InternalServer")
          /\ UNCHANGED RegisteredNode
     ELSE /\ RegisteredNode' = RegisteredNode \cup
               {[tntAddr |-> http[r].req.tnt_addr,
                 publicUri |-> http[r].req.public_uri,
                 hmacKey |-> randHMACKey,
                 tntCredit |-> 86400]}
          /\ Respond(r, "OK")
  /\ UNCHANGED <<utcNow, putNode, regNodesLimit>>
  /\ UnchangedCalendar

\* putNodeV1Async up to its first await
PutNodeStart(r, tnt_addr, public_uri, key, m) ==
  /\ http[r].pc \in {"free", "done"}
  /\ LET req == NodeRequest(tnt_addr, public_uri, key, m)
     IN http' = [http EXCEPT ![r] =
          [NoRequest EXCEPT !.op = "put", !.req = req,
             !.pc = IF HasUri(req) THEN "countUri" ELSE "find"]]
  /\ UNCHANGED <<utcNow, putNode, RegisteredNode, regNodesLimit>>
  /\ UnchangedCalendar

PutNodeCountUri(r) ==
  /\ http[r].op = "put"
  /\ http[r].pc = "countUri"
  /\ IF RegisteredNodeCountUri(http[r].req.public_uri, http[r].req.tnt_addr) >= 1
     THEN Respond(r, "Conflict")
     ELSE Goto(r, "find")
  /\ UNCHANGED <<utcNow, putNode, RegisteredNode, regNodesLimit>>
  /\ UnchangedCalendar

\* RegisteredNode.find, the HMAC verification and regNode.publicUri = ...
PutNodeFind(r) ==
  /\ http[r].op = "put"
  /\ http[r].pc = "find"
  /\ LET req == http[r].req
         found == RegisteredNodeFind(req.tnt_addr)
     IN IF found = {} THEN Respond(r, "NotFoundError")
        ELSE LET regNode == CHOOSE row \in found : TRUE
             IN IF req.hmac \notin acceptableHMACs(regNode, req, utcNow)
                THEN Respond(r, "InvalidArgument")
                ELSE http' = [http EXCEPT
                       ![r].pc = "balance",
                       ![r].regNode = [regNode EXCEPT !.publicUri = req.public_uri]]
  /\ UNCHANGED <<utcNow, putNode, RegisteredNode, regNodesLimit>>
  /\ UnchangedCalendar

\* a save that writes the row and then reports a failure
PutNodeSaveAnswersError(r) ==
  /\ http[r].op = "put"
  /\ http[r].pc = "save"
  /\ RegisteredNode' =
       {IF row.tntAddr = http[r].regNode.tntAddr
        THEN [row EXCEPT !.publicUri = http[r].regNode.publicUri]
        ELSE row : row \in RegisteredNode}
  /\ Respond(r, "InternalServer")
  /\ UNCHANGED <<utcNow, putNode, regNodesLimit>>
  /\ UnchangedCalendar

\* regNode.save(): writes the changed publicUri to the row of that key
PutNodeSave(r) ==
  /\ http[r].op = "put"
  /\ http[r].pc = "save"
  /\ RegisteredNode' =
       {IF row.tntAddr = http[r].regNode.tntAddr
        THEN [row EXCEPT !.publicUri = http[r].regNode.publicUri]
        ELSE row : row \in RegisteredNode}
  /\ Respond(r, "OK")
  /\ UNCHANGED <<utcNow, putNode, regNodesLimit>>
  /\ UnchangedCalendar

\* a query of the table throws: the catch around it answers with an
\* InternalServerError
DbFails(r) ==
  /\ http[r].pc \in {"count1", "countAddr", "countUri", "count2", "create",
                    "find", "save"}
  /\ Respond(r, "InternalServer")
  /\ UNCHANGED <<utcNow, putNode, RegisteredNode, regNodesLimit>>
  /\ UnchangedCalendar

InitApi(clock) ==
  /\ utcNow \in clock
  /\ putNode = NULL
  /\ RegisteredNode = RegisteredNodeRows
  /\ http = [r \in Requests |-> NoRequest]
  /\ regNodesLimit = 0

(***************************************************************************)
(* node-audit-producer-service.  The clock counts the minutes of a day.    *)
(* The calendar table is read only: it is given by the id of its top       *)
(* block, the ids below it being dense.                                    *)
(***************************************************************************)
Instances == {1, 2}

NEW_AUDIT_CHALLENGES_PER_HOUR == 30
NODE_AUDIT_ROUNDS_PER_HOUR == 30

\* Date.now(), in milliseconds
DateNow == auditClock * 60000

getUTCMinutes == auditClock % 60

\* new Date().getUTCDate(): the day of the month, the clock starting on the 1st
getUTCDate == 1 + (auditClock \div 1440)

creditTopoffAmount == 86400

\* setGenerateNewChallengeInterval: newChallengeMinutes
newChallengeMinutes ==
  {m \in 0 .. 59 : m % (60 \div NEW_AUDIT_CHALLENGES_PER_HOUR) = 0}

\* setPerformNodeAuditInterval: nodeAuditRoundsMinutes
nodeAuditRoundsMinutes ==
  LET offset == (60 \div NODE_AUDIT_ROUNDS_PER_HOUR) \div 2
  IN {m + offset + (IF m + offset < 60 THEN 0 ELSE 0 - 60) :
        m \in {k \in 0 .. 59 : k % (60 \div NODE_AUDIT_ROUNDS_PER_HOUR) = 0}}

RoundIdle == [pc |-> "idle", id |-> <<>>, table |-> {}, nodes |-> <<>>, x |-> 0]
PruneIdle == [pc |-> "idle", at |-> 0, tasks |-> <<>>, x |-> 0]

ProducerStarting ==
  [pc |-> "starting", challenge |-> "idle", challengeMinute |-> 0,
   roundMinute |-> 0, round |-> RoundIdle, pruneDue |-> <<>>, prune |-> PruneIdle,
   currentDay |-> 0, topoff |-> "none"]

UnchangedCore ==
  UNCHANGED <<now, blocks, lockVars, connVars, outState, gen, calVars, nistVars,
              ancVars, confVars, rewVars, apiVars, envVars>>

\* performLeaderElection: 'gainedLeadership'
AuditGainedLeadership(i) ==
  /\ \A j \in Instances : ~AUDIT_IS_LEADER[j]
  /\ AUDIT_IS_LEADER' = [AUDIT_IS_LEADER EXCEPT ![i] = TRUE]
  /\ UNCHANGED <<auditChannel, producer, auditClock, auditChallenge, auditQueue,
                 NodeAuditLog>>
  /\ UnchangedCore

\* performLeaderElection: 'error'
AuditLeaderError(i) ==
  /\ AUDIT_IS_LEADER[i]
  /\ AUDIT_IS_LEADER' = [AUDIT_IS_LEADER EXCEPT ![i] = FALSE]
  /\ UNCHANGED <<auditChannel, producer, auditClock, auditChallenge, auditQueue,
                 NodeAuditLog>>
  /\ UnchangedCore

\* openRMQConnectionAsync of the producer: amqpChannel = chan
AuditConnOpen(i) ==
  /\ ~auditChannel[i]
  /\ auditChannel' = [auditChannel EXCEPT ![i] = TRUE]
  /\ UNCHANGED <<AUDIT_IS_LEADER, producer, auditClock, auditChallenge,
                 auditQueue, NodeAuditLog>>
  /\ UnchangedCore

\* conn.on('close') of the producer: amqpChannel = null
AuditConnClose(i) ==
  /\ auditChannel[i]
  /\ auditChannel' = [auditChannel EXCEPT ![i] = FALSE]
  /\ UNCHANGED <<AUDIT_IS_LEADER, producer, auditClock, auditChallenge,
                 auditQueue, NodeAuditLog>>
  /\ UnchangedCore

AuditClockTick ==
  /\ auditClock < AuditStartMinute + MaxAuditMinutes
  /\ auditClock' = auditClock + 1
  /\ UNCHANGED <<AUDIT_IS_LEADER, auditChannel, producer, auditChallenge,
                 auditQueue, NodeAuditLog>>
  /\ UnchangedCore

\* a day passes
AuditDayTick ==
  /\ getUTCDate <= MaxAuditDays
  /\ auditClock' = auditClock + 1440
  /\ UNCHANGED <<AUDIT_IS_LEADER, auditChannel, producer, auditChallenge,
                 auditQueue, NodeAuditLog>>
  /\ UnchangedCore

\* a variant that updates every row
creditUpdateEveryRow(row, creditAmount) == TRUE

\* where: { tntCredit: { [Op.lt]: creditAmount } }
creditUpdateWhere(row, creditAmount) == row.tntCredit < creditAmount

\* RegisteredNode.update({ tntCredit: creditAmount }, { where }): the table
\* after the statement
performCreditTopoffAsync(table, creditAmount) ==
  {IF creditUpdateWhere(row, creditAmount)
   THEN [row EXCEPT !.tntCredit = creditAmount] ELSE row : row \in table}

\* the heartbeat event of setPerformCreditTopoffInterval on a new day: the
\* update runs, or fails and is logged
CreditTopoffHeartbeat(i, dbOk) ==
  /\ producer[i].pc = "running"
  /\ getUTCDate # producer[i].currentDay
  /\ producer' = [producer EXCEPT
       ![i].currentDay = getUTCDate,
       ![i].topoff = IF dbOk THEN "done" ELSE "failed"]
  /\ RegisteredNode' = IF dbOk
                        THEN performCreditTopoffAsync(RegisteredNode, creditTopoffAmount)
                        ELSE RegisteredNode
  /\ UNCHANGED <<AUDIT_IS_LEADER, auditChannel, auditClock, auditChallenge,
                 auditQueue, NodeAuditLog>>
  /\ UNCHANGED <<now, blocks, lockVars, connVars, outState, gen, calVars, nistVars,
                 ancVars, confVars, rewVars, envVars, utcNow, putNode, http,
                 regNodesLimit>>

\* a leader check that is always passed
IsLeaderUnchecked(i) == TRUE

\* IS_LEADER, as the tick reads it
IsLeader(i) == AUDIT_IS_LEADER[i]

\* startWatchesAndIntervalsAsync up to its await: a leader generates a
\* challenge first
ProducerStart(i) ==
  /\ producer[i].pc = "starting"
  /\ auditChannel[i]
  /\ producer' = [producer EXCEPT
       ![i].pc = IF IsLeader(i) THEN "firstChallenge" ELSE "running",
       ![i].challenge = IF IsLeader(i) THEN "run" ELSE "idle",
       ![i].challengeMinute = getUTCMinutes,
       ![i].roundMinute = getUTCMinutes,
       ![i].currentDay = getUTCDate]
  /\ UNCHANGED <<AUDIT_IS_LEADER, auditChannel, auditClock, auditChallenge,
                 auditQueue, NodeAuditLog>>
  /\ UnchangedCore

\* the heartbeat event of setGenerateNewChallengeInterval on a new minute
ChallengeHeartbeat(i) ==
  /\ producer[i].pc = "running"
  /\ producer[i].challenge = "idle"
  /\ getUTCMinutes # producer[i].challengeMinute
  /\ producer' = [producer EXCEPT
       ![i].challengeMinute = getUTCMinutes,
       ![i].challenge = IF getUTCMinutes \in newChallengeMinutes /\ IsLeader(i)
                        THEN "run" ELSE "idle"]
  /\ UNCHANGED <<AUDIT_IS_LEADER, auditChannel, auditClock, auditChallenge,
                 auditQueue, NodeAuditLog>>
  /\ UnchangedCore

\* a variant without the exception for a short calendar
challengeMaxBlockHeightAlwaysBack(currentBlockHeight) == currentBlockHeight - 1000

challengeMaxBlockHeight(currentBlockHeight) ==
  IF currentBlockHeight > 2000 THEN currentBlockHeight - 1000
  ELSE currentBlockHeight

challengeMinBlockHeight(max, randomNum) ==
  IF max - randomNum < 0 THEN 0 ELSE max - randomNum

\* calculateChallengeSolutionAsync: the Merkle root of the nonce and of the
\* hashes of the blocks min..max; no block in the range throws
calculateChallengeSolution(min, max, nonce) ==
  IF max < min THEN NULL
  ELSE [merkleRootOf |-> [nonce |-> nonce, first |-> min, last |-> max]]

\* where the producer stands after a generation
AfterChallenge(i) ==
  [producer[i] EXCEPT
     !.challenge = "idle",
     !.pc = IF @ = "firstChallenge" THEN "running" ELSE @,
     !.challengeMinute = IF producer[i].pc = "firstChallenge"
                         THEN getUTCMinutes ELSE @,
     !.roundMinute = IF producer[i].pc = "firstChallenge"
                     THEN getUTCMinutes ELSE @,
     !.currentDay = IF producer[i].pc = "firstChallenge"
                    THEN getUTCDate ELSE @]

\* generateAuditChallengeAsync with the top block the query returns (NULL:
\* none), the random number drawn and a cache that takes the challenge or
\* throws
generateAuditChallenge(i, topBlock, randomNum, cacheOk) ==
  /\ producer[i].challenge = "run"
  /\ producer' = [producer EXCEPT ![i] = AfterChallenge(i)]
  /\ IF topBlock = NULL \/ ~cacheOk
     THEN UNCHANGED auditChallenge
     ELSE LET max == challengeMaxBlockHeight(topBlock.int)
              min == challengeMinBlockHeight(max, randomNum)
              nonce == HexStr(<<Lit("nonce")>>)
              solution == calculateChallengeSolution(min, max, nonce)
          IN IF solution = NULL
             THEN UNCHANGED auditChallenge
             ELSE auditChallenge' =
                    [time |-> DateNow, min |-> min, max |-> max, nonce |-> nonce,
                     solution |-> solution, tip |-> topBlock.int,
                     randomNum |-> randomNum]
  /\ UNCHANGED <<AUDIT_IS_LEADER, auditChannel, auditClock, auditQueue,
                 NodeAuditLog>>
  /\ UnchangedCore

\* the heartbeat event of setPerformNodeAuditInterval on a new minute
RoundHeartbeat(i) ==
  /\ producer[i].pc = "running"
  /\ producer[i].round.pc = "idle"
  /\ getUTCMinutes # producer[i].roundMinute
  /\ producer' = [producer EXCEPT
       ![i].roundMinute = getUTCMinutes,
       ![i].round = IF getUTCMinutes \in nodeAuditRoundsMinutes /\ IsLeader(i)
                    THEN [RoundIdle EXCEPT !.pc = "find", !.id = <<i, auditClock>>]
                    ELSE RoundIdle]
  /\ UNCHANGED <<AUDIT_IS_LEADER, auditChannel, auditClock, auditChallenge,
                 auditQueue, NodeAuditLog>>
  /\ UnchangedCore

\* the orders in which a query without an ORDER BY may return a table
RECURSIVE Orderings(_)
Orderings(rows) ==
  IF rows = {} THEN {<<>>}
  ELSE UNION {{<<row>> \o rest : rest \in Orderings(rows \ {row})} : row \in rows}

\* auditNodesAsync: RegisteredNode.findAll({ attributes: [...] })
nodesReadyForAudit(rows) == rows

\* auditNodesAsync up to its first publish: the query returns the table in
\* the order rows, or throws and leaves the list empty
auditNodesFindAll(i, rows, dbOk) ==
  /\ producer[i].round.pc = "find"
  /\ producer' = [producer EXCEPT
       ![i].round.pc = "send",
       ![i].round.table = RegisteredNode,
       ![i].round.nodes = IF dbOk THEN nodesReadyForAudit(rows) ELSE <<>>,
       ![i].round.x = 1]
  /\ UNCHANGED <<AUDIT_IS_LEADER, auditChannel, auditClock, auditChallenge,
                 auditQueue, NodeAuditLog>>
  /\ UnchangedCore

\* auditNodesAsync: one turn of the loop; a publish on a null channel or a
\* publish that is nacked throws and is logged
auditNodesSend(i, ok) ==
  LET round == producer[i].round
      auditTaskObj == [tntAddr |-> round.nodes[round.x].tntAddr,
                       publicUri |-> round.nodes[round.x].publicUri]
  IN /\ round.pc = "send"
     /\ round.x <= Len(round.nodes)
     /\ auditQueue' = IF auditChannel[i] /\ ok
                      THEN Append(auditQueue, [type |-> "audit", task |-> auditTaskObj,
                                               round |-> round.id])
                      ELSE auditQueue
     /\ producer' = [producer EXCEPT ![i].round.x = @ + 1]
     /\ UNCHANGED <<AUDIT_IS_LEADER, auditChannel, auditClock, auditChallenge,
                    NodeAuditLog>>
     /\ UnchangedCore

\* auditNodesAsync after the loop: setTimeout(pruneAuditDataAsync, 60000)
auditNodesEnd(i) ==
  /\ producer[i].round.pc = "send"
  /\ producer[i].round.x > Len(producer[i].round.nodes)
  /\ producer' = [producer EXCEPT
       ![i].round = RoundIdle,
       ![i].pruneDue = Append(@, [at |-> DateNow + 60000,
                                  round |-> producer[i].round.id])]
  /\ UNCHANGED <<AUDIT_IS_LEADER, auditChannel, auditClock, auditChallenge,
                 auditQueue, NodeAuditLog>>
  /\ UnchangedCore

\* a cutoff of one hour
cutoffTimestampOneHour == DateNow - 60 * 60 * 1000

\* pruneAuditDataAsync: cutoffTimestamp
cutoffTimestamp == DateNow - 360 * 60 * 1000

pruneBatchSize == 250

\* rows ordered by audit_at ascending
RECURSIVE OrderAsc(_)
OrderAsc(times) ==
  IF times = <<>> THEN <<>>
  ELSE LET values == {times[k] : k \in DOMAIN times}
           least == CHOOSE t \in values : \A u \in values : t <= u
       IN SelectSeq(times, LAMBDA t : t = least)
            \o OrderAsc(SelectSeq(times, LAMBDA t : t # least))

\* pruneAuditDataAsync: the audit_at values that are ready to be pruned
auditAtTimes(cutoff) == OrderAsc(SelectSeq(NodeAuditLog, LAMBDA t : t <= cutoff))

\* pruneAuditDataAsync: Math.ceil(auditAtTimes.length / pruneBatchSize)
pruneBatchesNeeded(length) == (length + pruneBatchSize - 1) \div pruneBatchSize

\* pruneAuditDataAsync: the audit_at ranges of the batches
pruneBatchTasks(times) ==
  [b \in 1 .. pruneBatchesNeeded(Len(times)) |->
     LET x == b - 1
         startBoundIndex == x * pruneBatchSize
         endBoundIndex == IF startBoundIndex + pruneBatchSize - 1 >= Len(times)
                          THEN Len(times) - 1
                          ELSE startBoundIndex + pruneBatchSize - 1
     IN [startBound |-> times[startBoundIndex + 1],
         endBound |-> times[endBoundIndex + 1]]]

\* the timer of auditNodesAsync fires: pruneAuditDataAsync up to its first
\* publish; a query that throws ends it
pruneAuditData(i, dbOk) ==
  /\ producer[i].pruneDue # <<>>
  /\ Head(producer[i].pruneDue).at <= DateNow
  /\ producer[i].prune.pc = "idle"
  /\ producer' = [producer EXCEPT
       ![i].pruneDue = Tail(@),
       ![i].prune =
          LET tasks == IF dbOk THEN pruneBatchTasks(auditAtTimes(cutoffTimestamp))
                       ELSE <<>>
          IN IF tasks = <<>> THEN PruneIdle
             ELSE [pc |-> "send", at |-> DateNow, tasks |-> tasks, x |-> 1]]
  /\ UNCHANGED <<AUDIT_IS_LEADER, auditChannel, auditClock, auditChallenge,
                 auditQueue, NodeAuditLog>>
  /\ UnchangedCore

\* pruneAuditDataAsync: one turn of the publish loop
pruneSend(i, ok) ==
  LET prune == producer[i].prune
  IN /\ prune.pc = "send"
     /\ auditQueue' = IF auditChannel[i] /\ ok
                      THEN Append(auditQueue, [type |-> "prune",
                                               task |-> prune.tasks[prune.x],
                                               at |-> prune.at])
                      ELSE auditQueue
     /\ producer' = [producer EXCEPT
          ![i].prune = IF prune.x = Len(prune.tasks) THEN PruneIdle
                       ELSE [prune EXCEPT !.x = @ + 1]]
     /\ UNCHANGED <<AUDIT_IS_LEADER, auditChannel, auditClock, auditChallenge,
                    NodeAuditLog>>
     /\ UnchangedCore

InitAudit(log) ==
  /\ AUDIT_IS_LEADER = [i \in Instances |-> FALSE]
  /\ auditChannel = [i \in Instances |-> FALSE]
  /\ producer = [i \in Instances |-> ProducerStarting]
  /\ auditClock = AuditStartMinute
  /\ auditChallenge = NULL
  /\ auditQueue = <<>>
  /\ NodeAuditLog \in log

InitEnv(anchorBtc) ==
  /\ ANCHOR_BTC \in anchorBtc
  /\ otherIn = <<>>
  /\ btcTxIn = <<>>
  /\ outBtcMon = <<>>
  /\ rmq = RmqIdle

Init ==
  InitWith({}) /\ InitApi({28}) /\ InitEnv({"enabled"}) /\ InitAudit({<<>>})

\* the process exits (start: process.exit(1), or a crash): its memory is
\* lost and Consul releases what its sessions held
Stop(s) ==
  /\ proc[s] # "down"
  /\ proc' = [proc EXCEPT ![s] = "down"]
  /\ amqpChannel' = [amqpChannel EXCEPT ![s] = FALSE]
  /\ keyHolder' = [k \in LockKeys |->
                     IF keyHolder[k] # NoHolder /\ keyHolder[k][1] = s
                     THEN NoHolder ELSE keyHolder[k]]
  /\ lock' = [lock EXCEPT ![s] = [n \in LockNames |-> "idle"]]
  /\ pending' = [pending EXCEPT ![s] = [n \in LockNames |-> 0]]
  /\ gen' = [gen EXCEPT ![s] = "idle"]
  /\ AGGREGATION_ROOTS' = [AGGREGATION_ROOTS EXCEPT ![s] = <<>>]
  /\ cal' = [cal EXCEPT ![s] = CalIdle("none")]
  /\ calq' = [calq EXCEPT ![s] = <<>>]
  /\ calDone' = [calDone EXCEPT ![s] = NULL]
  /\ IS_LEADER' = [IS_LEADER EXCEPT ![s] = FALSE]
  /\ nistLatest' = [nistLatest EXCEPT ![s] = NULL]
  /\ nist' = [nist EXCEPT ![s] = WriterIdle]
  /\ lastBtcAnchorBlockId' = [lastBtcAnchorBlockId EXCEPT ![s] = NULL]
  /\ anc' = [anc EXCEPT ![s] = AnchorIdle("none")]
  /\ ancq' = [ancq EXCEPT ![s] = <<>>]
  /\ BTC_MON_MESSAGES' = [BTC_MON_MESSAGES EXCEPT ![s] = <<>>]
  /\ conf' = [conf EXCEPT ![s] = ConfIdle]
  /\ confq' = [confq EXCEPT ![s] = <<>>]
  /\ rewardLatest' = [rewardLatest EXCEPT ![s] = 0]
  /\ rew' = [rew EXCEPT ![s] = RewardIdle]
  /\ UNCHANGED <<apiVars, envVars, auditVars, now, blocks, outState, aggIn, settle, outBtcTx, monIn,
                 monSettle, rewIn, rewSettle, transfers>>

(***************************************************************************)
(* Specifications.                                                         *)
(***************************************************************************)
GenesisActions(s) ==
  \/ Startup(s)
  \/ GenesisAcquired(s)
  \/ GenesisCount(s)
  \/ GenesisWrite(s)

\* the calendar handler up to the release of the lock
CalendarWriteActions(s) ==
  \/ \E r \in RootVals : consumeAggRootMessage(s, r)
  \/ CalendarJob(s)
  \/ CalendarAcquired(s)
  \/ CalPersist(s)
  \/ CalWriteOk(s)
  \/ CalWriteFail(s)

\* queueCalStateDataAsync
CalendarPublishActions(s) ==
  \/ \E i \in 1..MaxAgg : CalPublish(s, i)
  \/ \E i \in 1..MaxAgg : CalPublishFail(s, i)

LeaderActions(s) ==
  \/ GainLeadership(s)
  \/ LoseLeadership(s)

NistActions(s) ==
  \/ \E v \in NistVals : NistChange(s, v)
  \/ NistJob(s)
  \/ NistAcquired(s)
  \/ NistRead(s)
  \/ NistWriteOk(s)
  \/ NistWriteFail(s)

AnchorWriteActions(s) ==
  \/ AnchorJob(s)
  \/ AnchorJobLookupFails(s)
  \/ AnchorAcquired(s)
  \/ AnchorScan(s)
  \/ AnchorWriteOk(s)
  \/ AnchorWriteFail(s)

\* queueBtcAStateDataAsync
AnchorPublishActions(s) ==
  \/ \E i \in 1..MaxBlocks : AnchorPublish(s, i)
  \/ \E i \in 1..MaxBlocks : AnchorPublishFail(s, i)

ConfirmWriteActions(s) ==
  \/ consumeBtcMonMessage(s)
  \/ ConfirmAcquired(s)
  \/ ConfirmRead(s)
  \/ ConfirmWriteOk(s)
  \/ ConfirmWriteFail(s)

\* queueBtcCStateDataAsync
ConfirmPublishActions(s) ==
  \/ \E i \in 1..MaxMon : ConfirmPublish(s, i)
  \/ \E i \in 1..MaxMon : ConfirmPublishFail(s, i)

RewardActions(s) ==
  \/ \E content \in RewardContents(Len(rewIn) + 1) : consumeRewardMessage(s, content)
  \/ RewardAcquired(s)
  \/ \E ok \in BOOLEAN : RewardTransferNode(s, ok)
  \/ \E ok \in BOOLEAN : RewardTransferCore(s, ok)
  \/ RewardRead(s)
  \/ RewardWriteOk(s)
  \/ RewardWriteFail(s)

(* The chain and its lock: the six handlers up to the release of the lock, *)
(* with failing reads and writes.  The calendar writer, the confirm and    *)
(* the reward consumer run on stack 1, the elected leader's NIST writer    *)
(* and the anchor engine on stack 2; both stacks start up and compete for  *)
(* the genesis block.  A new request for the lock arrives only while fewer *)
(* than MaxContenders lock objects are asking and the chain is not full,   *)
(* and one message of each kind is delivered.                              *)
(* The publish runs that follow a release change neither the store nor a   *)
(* lock and are left to the specifications below.                          *)
Contenders ==
  {sn \in Stacks \X LockNames : lock[sn[1]][sn[2]] # "idle" \/ pending[sn[1]][sn[2]] > 0}
Env == StoreCount < MaxBlocks /\ Cardinality(Contenders) < MaxContenders

Consumers == {1}
Schedulers == {2}

Next ==
  \/ \E s \in Stacks : GenesisActions(s)
  \/ \E s \in Stacks : GenesisFail(s)
  \/ \E s \in Stacks : ConnOpen(s)
  \/ \E s \in Stacks, n \in LockNames : RetryAcquire(s, n)
  \/ \E s \in Consumers : Len(aggIn) = 0 /\ consumeAggRootMessage(s, 1)
  \/ \E s \in Consumers : Env /\ CalendarJob(s)
  \/ \E s \in Consumers : CalendarAcquired(s)
  \/ \E s \in Consumers : CalPersist(s)
  \/ \E s \in Consumers : CalWriteOk(s)
  \/ \E s \in Consumers : CalWriteFail(s)
  \/ \E s \in Schedulers : GainLeadership(s)
  \/ \E s \in Schedulers : NistChange(s, 1)
  \/ \E s \in Schedulers : Env /\ NistJob(s)
  \/ \E s \in Schedulers : NistAcquired(s)
  \/ \E s \in Schedulers : NistRead(s)
  \/ \E s \in Schedulers : NistWriteOk(s)
  \/ \E s \in Schedulers : NistWriteFail(s)
  \/ \E s \in Schedulers : Env /\ AnchorJob(s)
  \/ \E s \in Schedulers : AnchorAcquired(s)
  \/ \E s \in Schedulers : AnchorScan(s)
  \/ \E s \in Schedulers : AnchorWriteOk(s)
  \/ \E s \in Schedulers : AnchorWriteFail(s)
  \/ \E s \in Consumers : Len(monIn) = 0 /\ Env /\ consumeBtcMonMessage(s)
  \/ \E s \in Consumers : ConfirmAcquired(s)
  \/ \E s \in Consumers : ConfirmRead(s)
  \/ \E s \in Consumers : ConfirmWriteOk(s)
  \/ \E s \in Consumers : ConfirmWriteFail(s)
  \/ \E s \in Consumers : Len(rewIn) = 0 /\ Env /\ consumeRewardMessage(s, RewardContent(1, NULL))
  \/ \E s \in Consumers : RewardAcquired(s)
  \/ \E s \in Consumers : RewardTransferNode(s, TRUE)
  \/ \E s \in Consumers : RewardRead(s)
  \/ \E s \in Consumers : RewardWriteOk(s)
  \/ \E s \in Consumers : RewardWriteFail(s)

Spec == Init /\ [][Next]_vars

(* Startups: processes start, stop and start again while a leader writes   *)
(* NIST blocks; the count and the create of the genesis handler succeed.   *)
NextStartup ==
  \/ \E s \in Stacks : GenesisActions(s)
  \/ \E s \in Stacks : Stop(s)
  \/ \E s \in Stacks : ConnOpen(s)
  \/ \E s \in Stacks : LeaderActions(s)
  \/ \E s \in Stacks : NistActions(s)
  \/ \E s \in Stacks : RetryAcquire(s, "nist")
  \/ Tick

SpecStartup == Init /\ [][NextStartup]_vars

(* The calendar writer of one stack in full, publish runs and connection   *)
(* losses included, while both stacks go for the genesis block.            *)
CalStacks == {1}
NextCal ==
  \/ \E s \in Stacks : GenesisActions(s)
  \/ \E s \in CalStacks : ConnOpen(s)
  \/ \E s \in CalStacks : ConnClose(s)
  \/ \E s \in CalStacks : RetryAcquire(s, "calendar")
  \/ \E s \in CalStacks : CalendarWriteActions(s)
  \/ \E s \in CalStacks : CalendarPublishActions(s)

SpecCal == Init /\ [][NextCal]_vars

(* The calendar writer under fairness.  Both stacks start and go for the   *)
(* genesis lock; the aggregator sends one root to stack 1 once the         *)
(* calendar has its first block; the connection stays up.  The store and   *)
(* the bus fail a first delivery at most once: a write or a publish run    *)
(* fails only while no message of its tick was nacked before, and the      *)
(* broker delivers a nacked message again.                                 *)
NeverFailed(roots) ==
  \A i \in DOMAIN roots :
    settle[roots[i].msg] = <<>> /\ aggIn[roots[i].msg].agg_id = roots[i].msg
LiveStacks == {1}
NextLive ==
  \/ \E s \in Stacks : GenesisActions(s)
  \/ \E s \in LiveStacks : ConnOpen(s)
  \/ \E s \in LiveStacks : aggIn = <<>> /\ blocks # {} /\ consumeAggRootMessage(s, 1)
  \/ \E s \in LiveStacks, m \in 1..MaxAgg : AggRedelivered(s, m)
  \/ \E s \in LiveStacks : CalendarJob(s)
  \/ \E s \in LiveStacks : RetryAcquire(s, "calendar")
  \/ \E s \in LiveStacks : CalendarAcquired(s)
  \/ \E s \in LiveStacks : CalPersist(s)
  \/ \E s \in LiveStacks : CalWriteOk(s)
  \/ \E s \in LiveStacks :
       /\ NeverFailed(cal[s].rootsForTree)
       /\ CalWriteFail(s)
  \/ \E s \in LiveStacks, i \in 1..MaxAgg : CalPublish(s, i)
  \/ \E s \in LiveStacks, i \in 1..MaxAgg :
       /\ i \in DOMAIN calq[s]
       /\ NeverFailed(calq[s][i].roots)
       /\ CalPublishFail(s, i)

\* scheduler ticks keep firing, the lock is eventually granted, handlers and
\* publish runs go on, writes and publishes that stay possible happen, the
\* broker delivers
FairLive ==
  /\ \A s \in Stacks :
       /\ WF_vars(Startup(s))
       /\ SF_vars(GenesisAcquired(s))
       /\ WF_vars(GenesisCount(s))
       /\ WF_vars(GenesisWrite(s))
  /\ \A s \in LiveStacks :
       /\ WF_vars(ConnOpen(s))
       /\ WF_vars(aggIn = <<>> /\ blocks # {} /\ consumeAggRootMessage(s, 1))
       /\ WF_vars(CalendarJob(s))
       /\ WF_vars(RetryAcquire(s, "calendar"))
       /\ SF_vars(CalendarAcquired(s))
       /\ WF_vars(CalPersist(s))
       /\ WF_vars(CalWriteOk(s))
       /\ \A i \in 1..MaxAgg : WF_vars(CalPublish(s, i))
       /\ \A m \in 1..MaxAgg : WF_vars(AggRedelivered(s, m))

SpecLive == Init /\ [][NextLive]_vars /\ FairLive

(* The anchor engine of one stack in full, publish runs and connection     *)
(* losses included, while the other stack writes a cal block.  The jobs    *)
(* fire under Env.                                                         *)
AnchorStacks == {2}
NextAnchor ==
  \/ \E s \in Stacks : GenesisActions(s)
  \/ \E s \in Stacks : ConnOpen(s)
  \/ \E s \in AnchorStacks : ConnClose(s)
  \/ \E s \in AnchorStacks : RetryAcquire(s, "btc-anchor")
  \/ \E s \in Stacks \ AnchorStacks : Len(aggIn) = 0 /\ consumeAggRootMessage(s, 1)
  \/ \E s \in Stacks \ AnchorStacks : Env /\ CalendarJob(s)
  \/ \E s \in Stacks \ AnchorStacks : CalendarAcquired(s)
  \/ \E s \in Stacks \ AnchorStacks : CalPersist(s)
  \/ \E s \in Stacks \ AnchorStacks : CalWriteOk(s)
  \/ \E s \in Stacks \ AnchorStacks : CalWriteFail(s)
  \/ \E s \in AnchorStacks : Env /\ AnchorJob(s)
  \/ \E s \in AnchorStacks : AnchorJobLookupFails(s)
  \/ \E s \in AnchorStacks : AnchorAcquired(s)
  \/ \E s \in AnchorStacks : AnchorScan(s)
  \/ \E s \in AnchorStacks : AnchorWriteOk(s)
  \/ \E s \in AnchorStacks : AnchorWriteFail(s)
  \/ \E s \in AnchorStacks : AnchorPublishActions(s)

SpecAnchor == Init /\ [][NextAnchor]_vars

(* The anchor engine of a stack that starts against a store other runs    *)
(* have filled: a genesis block followed by one to MaxPreload cal and NIST *)
(* blocks in any order, so that the trees have two to four leaves and more *)
(* when a failed lookup makes a cycle aggregate the whole chain again.  A   *)
(* job fires when the publish run of the cycle before it is over.          *)
PreloadTime == 0 - 1
PreloadBlock(prevBlock, type) ==
  IF type = "cal"
  THEN BuildBlock(1, PreloadTime, NewId(prevBlock), "cal",
                  CalDataId(NewId(prevBlock)),
                  MerkleRootHex(<<HexStr(<<Lit("agg" \o ToString(NewId(prevBlock)))>>)>>),
                  PrevHashOf(prevBlock))
  ELSE BuildBlock(1, PreloadTime, NewId(prevBlock), "nist", NistValue(1).ts,
                  NistValue(1).val, PrevHashOf(prevBlock))
RECURSIVE PreloadChain(_)
PreloadChain(types) ==
  IF types = <<>> THEN {BuildBlock(1, PreloadTime, 0, "gen", "0", zeroStr, zeroStr)}
  ELSE LET bs == PreloadChain(SubSeq(types, 1, Len(types) - 1))
           tip == CHOOSE b \in bs : \A c \in bs : c.id <= b.id
       IN bs \cup {PreloadBlock(tip, types[Len(types)])}
PreloadTypes ==
  UNION {[1..n -> {"cal", "nist"}] : n \in 1..MaxPreload}
InitRestart ==
  /\ \E types \in PreloadTypes : InitWith(PreloadChain(types))
  /\ InitApi({28})
  /\ InitEnv({"enabled"})
  /\ InitAudit({<<>>})

NextTree ==
  \/ \E s \in AnchorStacks : Startup(s)
  \/ \E s \in AnchorStacks : ConnOpen(s)
  \/ \E s \in AnchorStacks :
       ancq[s] = <<>> /\ lock[s]["btc-anchor"] = "idle" /\ AnchorJob(s)
  \/ \E s \in AnchorStacks : AnchorJobLookupFails(s)
  \/ \E s \in AnchorStacks : AnchorAcquired(s)
  \/ \E s \in AnchorStacks : AnchorScan(s)
  \/ \E s \in AnchorStacks : AnchorWriteOk(s)
  \/ \E s \in AnchorStacks : AnchorWriteFail(s)
  \/ \E s \in AnchorStacks : AnchorPublishActions(s)

SpecTree == InitRestart /\ [][NextTree]_vars

(* The confirm path of one stack in full, publish runs and connection      *)
(* losses included, while leadership comes and goes on both stacks.        *)
ConfirmStacks == {1}
NextConfirm ==
  \/ \E s \in Stacks : GenesisActions(s)
  \/ \E s \in Stacks : LeaderActions(s)
  \/ \E s \in ConfirmStacks : ConnOpen(s)
  \/ \E s \in ConfirmStacks : ConnClose(s)
  \/ \E s \in ConfirmStacks : RetryAcquire(s, "btc-confirm")
  \/ \E s \in ConfirmStacks : ConfirmWriteActions(s)
  \/ \E s \in ConfirmStacks : ConfirmPublishActions(s)

SpecConfirm == Init /\ [][NextConfirm]_vars

(* The reward path of one stack in full: messages with and without a core  *)
(* part and one that is not JSON, transfers that succeed or fail, failing  *)
(* block writes and connection losses.                                     *)
RewardStacks == {1}
NextReward ==
  \/ \E s \in Stacks : GenesisActions(s)
  \/ \E s \in RewardStacks : ConnOpen(s)
  \/ \E s \in RewardStacks : ConnClose(s)
  \/ \E s \in RewardStacks : RetryAcquire(s, "reward")
  \/ \E s \in RewardStacks : RewardActions(s)

SpecReward == Init /\ [][NextReward]_vars

\* PUT /node requests from Nodes whose clocks are up to two minutes off, with
\* the right or a wrong key, while the clock of Core passes the end of an
\* hour and of a day.
InitNode ==
  /\ InitWith({}) /\ InitApi(StartMinutes)
  /\ InitEnv({"enabled"}) /\ InitAudit({<<>>})
NextNode ==
  \/ ClockTick
  \/ \E tnt_addr \in NodeAddresses, public_uri \in NodeUris, key \in NodeKeys,
        m \in (utcNow - 2) .. (utcNow + 2), balance \in NodeBalances :
       putNodeV1Async(tnt_addr, public_uri, key, m, balance)

SpecNode == InitNode /\ [][NextNode]_vars

\* The consumer of one stack with BTC anchoring enabled or disabled: messages
\* of every type arrive while the connection comes and goes.
InitDispatch ==
  /\ InitWith({}) /\ InitApi({28})
  /\ InitEnv({"enabled", "disabled"}) /\ InitAudit({<<>>})
DispatchStacks == {1}
NextDispatch ==
  \/ \E s \in Stacks : GenesisActions(s)
  \/ \E s \in DispatchStacks : ConnOpen(s)
  \/ \E s \in DispatchStacks : ConnClose(s)
  \/ \E s \in DispatchStacks, type \in MessageTypes : processMessageAck(s, type)
  \/ \E s \in DispatchStacks : consumeAggRootMessage(s, 1)
  \/ \E s \in DispatchStacks : consumeBtcMonMessage(s)
  \/ \E s \in DispatchStacks : consumeRewardMessage(s, RewardContent(1, NULL))

SpecDispatch == InitDispatch /\ [][NextDispatch]_vars

\* The btctx consumer of one stack: messages arrive and their two publishes
\* succeed or fail while the connection comes and goes.
NextBtcTx ==
  \/ \E s \in Stacks : GenesisActions(s)
  \/ \E s \in DispatchStacks : ConnOpen(s)
  \/ \E s \in DispatchStacks : ConnClose(s)
  \/ \E s \in DispatchStacks :
       \E content \in BtcTxContents(Len(btcTxIn) + 1) : consumeBtcTxMessage(s, content)
  \/ \E s \in DispatchStacks, m \in 1..MaxBtcTx, ok \in BOOLEAN :
       BtcTxPublishState(s, m, ok)
  \/ \E s \in DispatchStacks, m \in 1..MaxBtcTx, ok \in BOOLEAN :
       BtcTxPublishMon(s, m, ok)

SpecBtcTx == Init /\ [][NextBtcTx]_vars

\* A caller of openStandardRMQConnectionAsync and a broker that refuses,
\* fails or accepts, and closes connections: the calls and the connections
\* that fail are counted up to MaxConnAttempts.  The sleep ends, and a
\* broker that can accept again and again does accept (strong fairness).
RmqFailures == RmqOutcomes \ {"established"}
NextRmq ==
  \/ rmq.call < MaxConnAttempts /\ RmqCall
  \/ \E outcome \in RmqFailures :
       Len(rmq.conns) < MaxConnAttempts /\ RmqAttempt(outcome)
  \/ RmqEstablished
  \/ RmqSleep
  \/ \E c \in 1..(2 * MaxConnAttempts) : RmqConnClosed(c)
FairRmq == SF_vars(RmqEstablished) /\ WF_vars(RmqSleep)

SpecRmq == Init /\ [][NextRmq]_vars /\ FairRmq

\* The challenge a producer that starts as leader generates, over calendars
\* of every length around the thresholds and every random number.
ChallengeInstances == {1}
TipIds == (0 .. 12) \cup (995 .. 1005) \cup (1995 .. 2005) \cup (2995 .. 3005)
NextChallenge ==
  \/ \E i \in ChallengeInstances : AuditGainedLeadership(i)
  \/ \E i \in ChallengeInstances : AuditConnOpen(i)
  \/ \E i \in ChallengeInstances : ProducerStart(i)
  \/ \E i \in ChallengeInstances :
       /\ producer[i].challenge = "run"
       /\ \E topBlock \in {JsInt(k) : k \in TipIds} \cup {NULL},
             randomNum \in 10 .. 1000, cacheOk \in BOOLEAN :
            generateAuditChallenge(i, topBlock, randomNum, cacheOk)

SpecChallenge == Init /\ [][NextChallenge]_vars

\* Two producers under leader election over three minutes: challenges on the
\* even minutes, audit rounds on the odd ones, leadership lost and regained
\* at any point.
Minute == 60000
AuditLogSmall == <<500 * Minute, 100 * Minute>>
InitAuditRound ==
  InitWith({}) /\ InitApi({28}) /\ InitEnv({"enabled"})
    /\ InitAudit({AuditLogSmall})
NextAudit ==
  \/ AuditClockTick
  \/ \E i \in Instances : AuditGainedLeadership(i)
  \/ \E i \in Instances : AuditLeaderError(i)
  \/ \E i \in Instances : AuditConnOpen(i)
  \/ \E i \in Instances : ProducerStart(i)
  \/ \E i \in Instances : ChallengeHeartbeat(i)
  \/ \E i \in Instances :
       /\ producer[i].challenge = "run"
       /\ \E topBlock \in {JsInt(5), NULL} :
            generateAuditChallenge(i, topBlock, 10, TRUE)
  \/ \E i \in Instances : RoundHeartbeat(i)
  \/ \E i \in Instances :
       /\ producer[i].round.pc = "find"
       /\ \E rows \in Orderings(RegisteredNode) :
            auditNodesFindAll(i, rows, TRUE)
  \/ \E i \in Instances : auditNodesSend(i, TRUE)
  \/ \E i \in Instances : auditNodesEnd(i)

SpecAudit == InitAuditRound /\ [][NextAudit]_vars

\* One producer and its audit rounds: the registry is read in any order or
\* not at all, the connection is lost and reopened during a round, publishes
\* fail.
NextRound ==
  \/ AuditClockTick
  \/ \E i \in ChallengeInstances : AuditGainedLeadership(i)
  \/ \E i \in ChallengeInstances : AuditConnOpen(i)
  \/ \E i \in ChallengeInstances : AuditConnClose(i)
  \/ \E i \in ChallengeInstances : ProducerStart(i)
  \/ \E i \in ChallengeInstances : generateAuditChallenge(i, JsInt(5), 10, TRUE)
  \/ \E i \in ChallengeInstances : RoundHeartbeat(i)
  \/ \E i \in ChallengeInstances :
       /\ producer[i].round.pc = "find"
       /\ \E rows \in Orderings(RegisteredNode), dbOk \in BOOLEAN :
            auditNodesFindAll(i, rows, dbOk)
  \/ \E i \in ChallengeInstances, ok \in BOOLEAN : auditNodesSend(i, ok)
  \/ \E i \in ChallengeInstances : auditNodesEnd(i)
  \/ \E i \in ChallengeInstances, dbOk \in BOOLEAN : pruneAuditData(i, dbOk)
  \/ \E i \in ChallengeInstances, ok \in BOOLEAN : pruneSend(i, ok)

SpecRound == InitAuditRound /\ [][NextRound]_vars

\* One producer and the prune of its round over audit logs of no row, of
\* one row that is exactly six hours old, of one full batch, of a batch and
\* one row, of two and of three batches, with younger rows and rows of the
\* same audit_at among them, in the order of their insertion.
Rows(n, minute) == [k \in 1 .. n |-> minute * Minute]
AuditLogs ==
  {<<>>,
   AuditLogSmall,
   Rows(1, 241) \o Rows(1, 240),
   Rows(250, 100),
   Rows(3, 500) \o Rows(200, 239) \o Rows(51, 100),
   Rows(500, 200) \o Rows(1, 300),
   Rows(300, 240) \o Rows(201, 100) \o Rows(2, 241)}
InitPrune ==
  InitWith({}) /\ InitApi({28}) /\ InitEnv({"enabled"}) /\ InitAudit(AuditLogs)

SpecPrune == InitPrune /\ [][NextRound]_vars

\* The daily top-off: two producers, leader or not, over registries whose
\* Nodes hold credits below, at and above the top-off amount, the update
\* failing or not, while the days pass.
CreditValues == {0, creditTopoffAmount - 1, creditTopoffAmount, creditTopoffAmount + 1}
Registries ==
  {{[row EXCEPT !.tntCredit = credit[row]] : row \in RegisteredNodeRows} :
     credit \in [RegisteredNodeRows -> CreditValues]}
InitTopoff ==
  /\ InitWith({}) /\ InitEnv({"enabled"}) /\ InitAudit({<<>>})
  /\ utcNow = 28
  /\ putNode = NULL
  /\ RegisteredNode \in Registries
  /\ http = [r \in Requests |-> NoRequest]
  /\ regNodesLimit = 0
NextTopoff ==
  \/ AuditDayTick
  \/ \E i \in Instances : AuditGainedLeadership(i)
  \/ \E i \in Instances : AuditConnOpen(i)
  \/ \E i \in Instances : ProducerStart(i)
  \/ \E i \in Instances :
       \E topBlock \in {JsInt(5), NULL} : generateAuditChallenge(i, topBlock, 10, TRUE)
  \/ \E i \in Instances, dbOk \in BOOLEAN : CreditTopoffHeartbeat(i, dbOk)

SpecTopoff == InitTopoff /\ [][NextTopoff]_vars

\* The registry under concurrent requests: registrations and updates of the
\* same and of different Nodes with free and taken URIs, cap changes, failing
\* balance reads and failing queries.
LimitValues == {JsInt(n) : n \in (0 - 1) .. MaxLimit} \cup {NULL}
NextRegistry ==
  \/ \E count \in LimitValues : updateRegNodesLimit(count)
  \/ \E r \in Requests, tnt_addr \in NodeAddresses, public_uri \in NodeUris :
       PostNodeStart(r, tnt_addr, public_uri)
  \/ \E r \in Requests : PostNodeCountTotal(r)
  \/ \E r \in Requests : PostNodeCountAddr(r)
  \/ \E r \in Requests : PostNodeCountUri(r)
  \/ \E r \in Requests, balance \in NodeBalances : NodeBalance(r, balance)
  \/ \E r \in Requests, key \in FreshKeys : PostNodeCreate(r, key)
  \/ \E r \in Requests, tnt_addr \in NodeAddresses, public_uri \in NodeUris,
        key \in NodeKeys \cup FreshKeys :
       PutNodeStart(r, tnt_addr, public_uri, key, utcNow)
  \/ \E r \in Requests : PutNodeCountUri(r)
  \/ \E r \in Requests : PutNodeFind(r)
  \/ \E r \in Requests : PutNodeSave(r)
  \/ \E r \in Requests : DbFails(r)
  \/ \E r \in Requests, error \in ValidationErrors : PostNodeRejected(r, error)
  \/ \E r \in Requests, error \in ValidationErrors : PutNodeRejected(r, error)

SpecRegistry == Init /\ [][NextRegistry]_vars

\* Registrations under a cap that stays as it is: the cap is at least the
\* number of the rows of the table, and two requests register Nodes that are
\* not in it.
CapAddresses == {JsStr("0xb"), JsStr("0xd")}
InitCap ==
  /\ InitWith({}) /\ InitEnv({"enabled"}) /\ InitAudit({<<>>})
  /\ utcNow = 28
  /\ putNode = NULL
  /\ RegisteredNode = RegisteredNodeRows
  /\ http = [r \in Requests |-> NoRequest]
  /\ regNodesLimit \in Cardinality(RegisteredNodeRows) .. MaxLimit
NextCap ==
  \/ \E r \in Requests, tnt_addr \in CapAddresses, public_uri \in NodeUris :
       PostNodeStart(r, tnt_addr, public_uri)
  \/ \E r \in Requests : PostNodeCountTotal(r)
  \/ \E r \in Requests : PostNodeCountAddr(r)
  \/ \E r \in Requests : PostNodeCountUri(r)
  \/ \E r \in Requests, balance \in NodeBalances : NodeBalance(r, balance)
  \/ \E r \in Requests, key \in FreshKeys : PostNodeCreate(r, key)
  \/ \E r \in Requests : DbFails(r)

SpecCap == InitCap /\ [][NextCap]_vars

(***************************************************************************)
(* Properties of the chain and of the lock, checked under Spec.            *)
(***************************************************************************)
\* C1: every block with id k > 0 has a predecessor with id k - 1 in the
\* store and its prevHash is the hash of that predecessor.
C1_PrevHashLinksChain ==
  \A b \in blocks :
    b.id > 0 => \E p \in blocks : p.id = b.id - 1 /\ b.prevHash = p.hash

C1_Witness ==
  /\ StoreCount = MaxBlocks
  /\ \E b, c \in blocks : b.id > 0 /\ c.id > 0 /\ b.stackId # c.stackId

\* C2: the ids in the store are exactly 0..n-1 for a store of n blocks: no
\* gap, no duplicate.
C2_IdsAreDense ==
  {b.id : b \in blocks} = 0..(Cardinality(blocks) - 1)

C2_Witness ==
  \E b, c \in blocks : b.type = "btc-a" /\ b.id = 1 /\ c.type = "cal" /\ c.id = 2

\* C3: at most one lock handler of any stack is between its acquire event
\* and its release, Consul holds the key for it, and every block is
\* appended by the handler that is in that section, as a block of its own
\* type and stack.
TypeOfLock(n) ==
  CASE n = "genesis" -> "gen" [] n = "calendar" -> "cal" [] n = "nist" -> "nist"
    [] n = "btc-anchor" -> "btc-a" [] n = "btc-confirm" -> "btc-c"
    [] OTHER -> "reward"
HeldLocks == {sn \in Stacks \X LockNames : lock[sn[1]][sn[2]] = "held"}
C3_State ==
  /\ Cardinality(HeldLocks) <= 1
  /\ \A sn \in HeldLocks : keyHolder[LockKeyOf(sn[2])] = sn
C3_Step ==
  blocks' # blocks =>
    \E sn \in HeldLocks :
      \E b \in blocks' :
        /\ blocks' = blocks \cup {b}
        /\ b.stackId = StackId(sn[1])
        /\ b.type = TypeOfLock(sn[2])
GenesisBlocks == {b \in blocks : b.id = 0}
C4_State ==
  /\ Cardinality(GenesisBlocks) <= 1
  /\ \A b \in GenesisBlocks :
       /\ b.type = "gen" /\ b.dataId = "0"
       /\ b.dataVal = HexStr(<<Lit("00x32")>>) /\ b.prevHash = HexStr(<<Lit("00x32")>>)
  /\ ( /\ \E s \in Stacks : proc[s] # "down"
       /\ \A s \in Stacks :
            proc[s] # "down" => lock[s]["genesis"] = "idle" /\ pending[s]["genesis"] = 0 )
     => Cardinality(GenesisBlocks) = 1
C4_Step ==
  /\ \A s \in Stacks :
       (proc[s] = "down" /\ proc'[s] # "down" /\ blocks # {}) =>
         /\ blocks' = blocks
         /\ lock'[s]["genesis"] = "idle" /\ pending'[s]["genesis"] = 0
  /\ blocks # {} => \A b \in blocks' \ blocks : b.type # "gen" /\ b.id # 0
NoBlockAfter(last) ==
  ~ \E b \in blocks : b.id > (IF last = NULL THEN -1 ELSE last.int)
C10_Step ==
  \A s \in Stacks :
    (anc[s].pc = "scan" /\ anc'[s] # anc[s] /\ proc'[s] # "down"
       /\ NoBlockAfter(lastBtcAnchorBlockId[s])) =>
      /\ blocks' = blocks
      /\ outState' = outState
      /\ outBtcTx' = outBtcTx
      /\ ancq' = ancq
      /\ anc'[s].pc = "idle"
      /\ lock'[s]["btc-anchor"] = "idle"
C10_QuietAnchorRunDoesNothing == [][C10_Step]_vars

C10_Witness ==
  \E s \in Stacks :
    /\ anc[s].last = "quiet"
    /\ \E b \in blocks : b.type = "btc-a" /\ b.stackId = StackId(s)

\* C11: an attempt of the anchor handler that starts while amqpChannel is
\* null ends the cycle at once: no block is appended (so no btc-a block),
\* nothing is published on the state queue or on the btctx queue, no publish
\* run is queued and the lock is released.
C11_Step ==
  \A s \in Stacks :
    (anc[s].pc = "scan" /\ anc'[s] # anc[s] /\ ~amqpChannel[s]) =>
      /\ blocks' = blocks
      /\ outState' = outState
      /\ outBtcTx' = outBtcTx
      /\ ancq' = ancq
      /\ anc'[s].pc = "idle"
      /\ lock'[s]["btc-anchor"] = "idle"
C11_NoAnchorWithoutChannel == [][C11_Step]_vars

C11_Witness ==
  \E s \in Stacks :
    /\ anc[s].last = "nochannel"
    /\ \E b \in blocks : b.type = "cal"
    /\ ~ \E b \in blocks : b.type = "btc-a"

\* C12: once an anchor cycle of a stack is over (handler idle, no publish
\* run left), every btc-a block of that stack has exactly one btctx request
\* carrying its root, and every cal block it aggregated has exactly one
\* anchor_btc_agg segment of that request's aggregation id; a step of the
\* anchor handler that appends appends exactly one btc-a block.
AnchorBlocksOf(s) == {b \in blocks : b.type = "btc-a" /\ b.stackId = StackId(s)}
PrevAnchorId(s, b) ==
  LET earlier == {a \in AnchorBlocksOf(s) : a.id < b.id}
  IN IF earlier = {} THEN -1
     ELSE (CHOOSE a \in earlier : \A c \in earlier : c.id <= a.id).id
RequestsFor(b) ==
  {i \in DOMAIN outBtcTx : outBtcTx[i].anchor_btc_agg_root = b.dataVal}
SegmentsFor(id, calId) ==
  {i \in DOMAIN outState :
     /\ outState[i].type = "anchor_btc_agg"
     /\ outState[i].anchor_btc_agg_id = id
     /\ outState[i].cal_id = calId}
C12_State ==
  \A s \in Stacks :
    (anc[s].pc = "idle" /\ ancq[s] = <<>>) =>
      \A b \in AnchorBlocksOf(s) :
        /\ Cardinality(RequestsFor(b)) = 1
        /\ \A i \in RequestsFor(b) : \A c \in blocks :
             (c.type = "cal" /\ PrevAnchorId(s, b) < c.id /\ c.id < b.id) =>
               Cardinality(SegmentsFor(outBtcTx[i].anchor_btc_agg_id, c.id)) = 1
C12_Step ==
  \A s \in Stacks :
    (anc[s].pc = "write" /\ anc'[s].pc = "idle" /\ anc'[s].last = "anchored") =>
      \E b \in blocks' \ blocks : blocks' = blocks \cup {b} /\ b.type = "btc-a"
C12_EveryAnchorHasItsRequest == []C12_State /\ [][C12_Step]_vars

\* C13: a btctx request is published by a publish run only when every
\* segment of that run is on the state queue already, and it is the run's
\* last act; a run that ends on a failed publish leaves the btctx queue as
\* it was.  So every btctx request on the queue has all the segments of the
\* cal blocks its btc-a block aggregated, and no run with its id is left.
AnchorRequestOf(task) ==
  [anchor_btc_agg_id |-> task.treeData.anchor_btc_agg_id,
   anchor_btc_agg_root |-> task.treeData.anchor_btc_agg_root]
C13_Step ==
  /\ outBtcTx' # outBtcTx =>
       \E s \in Stacks : \E i \in DOMAIN ancq[s] :
         /\ outBtcTx' = Append(outBtcTx, AnchorRequestOf(ancq[s][i]))
         /\ \A x \in DOMAIN ancq[s][i].treeData.proofData :
              \E j \in DOMAIN outState :
                outState[j] = AnchorStateObj(ancq[s][i].treeData, x)
         /\ outState' = outState
  /\ \A s \in Stacks : \A i \in DOMAIN ancq[s] :
       ( /\ ancq'[s] = RemoveAt(ancq[s], i)
         /\ \E x \in DOMAIN ancq[s][i].treeData.proofData :
              ~ \E j \in DOMAIN outState :
                  outState[j] = AnchorStateObj(ancq[s][i].treeData, x) )
       => outBtcTx' = outBtcTx
C13_State ==
  \A r \in DOMAIN outBtcTx :
    /\ \A s \in Stacks : \A i \in DOMAIN ancq[s] :
         ancq[s][i].treeData.anchor_btc_agg_id # outBtcTx[r].anchor_btc_agg_id
    /\ \E s \in Stacks : \E b \in AnchorBlocksOf(s) :
         /\ b.dataVal = outBtcTx[r].anchor_btc_agg_root
         /\ \A c \in blocks :
              (c.type = "cal" /\ PrevAnchorId(s, b) < c.id /\ c.id < b.id) =>
                SegmentsFor(outBtcTx[r].anchor_btc_agg_id, c.id) # {}
C13_RequestAfterSegments == []C13_State /\ [][C13_Step]_vars

C13_Witness ==
  \E r \in DOMAIN outBtcTx : \E c \in blocks :
    c.type = "cal" /\ SegmentsFor(outBtcTx[r].anchor_btc_agg_id, c.id) # {}

(***************************************************************************)
(* Properties of the calendar writer, checked under SpecCal.               *)
(***************************************************************************)
LeavesOf(roots) == [i \in 1..Len(roots) |-> roots[i].agg_root]
CalMessagesFor(q, id) == {i \in DOMAIN q : q[i].type = "cal" /\ q[i].cal_id = id}

\* a Chainpoint operation applied to a byte string: l prepends, r appends,
\* op hashes; a value is read as hex when it is hex and as UTF-8 otherwise
OpValueBytes(v) == IF isHex(v) THEN BufferFrom(v, "hex") ELSE BufferFrom(v, "utf8")
RECURSIVE ReplayOps(_, _)
ReplayOps(bytes, ops) ==
  IF ops = <<>> THEN bytes
  ELSE LET o == Head(ops)
           next == IF o.k = "l" THEN OpValueBytes(o.val) \o bytes
                   ELSE IF o.k = "r" THEN bytes \o OpValueBytes(o.val)
                   ELSE IF o.val = Txt("sha-256-x2") THEN <<Sha256(<<Sha256(bytes)>>)>>
                   ELSE <<Sha256(bytes)>>
       IN ReplayOps(next, Tail(ops))

\* C5: a calendar tick that ran with n >= 1 roots and succeeded has appended
\* exactly one block, of type cal, with dataId equal to its id and dataVal
\* the Merkle root of the n roots in insertion order; the n roots have left
\* the buffer, and exactly n proof messages, one per root, carry the id of
\* that block.
C5_TickDone(s) ==
  calDone[s] # NULL /\ calDone[s].outcome = "acked"
C5_State ==
  \A s \in Stacks :
    C5_TickDone(s) =>
      LET roots == calDone[s].roots
          block == calDone[s].block
          sent == CalMessagesFor(outState, block.id)
      IN /\ Len(roots) >= 1
         /\ block \in blocks
         /\ block.type = "cal"
         /\ block.dataId = ToString(block.id)
         /\ block.dataVal = MerkleRootHex(LeavesOf(roots))
         /\ \A j \in DOMAIN roots : roots[j] \notin SeqToSet(AGGREGATION_ROOTS[s])
         /\ Cardinality(sent) = Len(roots)
         /\ \A j \in DOMAIN roots :
              Cardinality({i \in sent : outState[i].agg_id = roots[j].agg_id}) = 1
C5_Step ==
  \A s \in Stacks :
    (cal[s].pc # "idle" /\ cal'[s].pc = "idle" /\ blocks' # blocks) =>
      /\ Cardinality(blocks') = Cardinality(blocks) + 1
      /\ AGGREGATION_ROOTS'[s] = AGGREGATION_ROOTS[s]
      /\ \A j \in DOMAIN cal[s].rootsForTree :
           cal[s].rootsForTree[j] \notin SeqToSet(AGGREGATION_ROOTS'[s])
C5_TickAppendsOneBlockAndPublishesAll == []C5_State /\ [][C5_Step]_vars

C5_Witness ==
  \E s \in Stacks : C5_TickDone(s) /\ Len(calDone[s].roots) = 2

\* C6: replaying the ops of a published proof message from its agg_root
\* gives, before the last three ops, the dataVal of the cal block named by
\* cal_id and, after them, the hash stored in that block.
C6_ReplayYieldsBlockHash ==
  \A i \in DOMAIN outState :
    outState[i].type = "cal" =>
      \E b \in blocks :
        /\ b.id = outState[i].cal_id
        /\ b.type = "cal"
        /\ LET ops == outState[i].ops
               start == BufferFrom(aggIn[outState[i].agg_id].agg_root, "hex")
           IN /\ Len(ops) >= 3
              /\ HexStr(ReplayOps(start, SubSeq(ops, 1, Len(ops) - 3))) = b.dataVal
              /\ HexStr(ReplayOps(start, ops)) = b.hash

C6_Witness ==
  \E i \in DOMAIN outState : outState[i].type = "cal" /\ Len(outState[i].ops) > 3

\* C7: a scheduler tick asks for the calendar lock only when the buffer
\* holds a root, and a handler run that snapshots an empty buffer ends at
\* once: no block is appended, nothing is published, nothing is acked or
\* nacked, no publish run is queued and the lock is free again.
C7_Step ==
  \A s \in Stacks :
    /\ ( \/ pending'[s]["calendar"] > pending[s]["calendar"]
         \/ /\ lock[s]["calendar"] = "idle" /\ lock'[s]["calendar"] = "waiting"
            /\ pending'[s]["calendar"] = pending[s]["calendar"] )
       => Len(AGGREGATION_ROOTS[s]) > 0
    /\ ( /\ lock[s]["calendar"] = "waiting" /\ lock'[s]["calendar"] # "waiting"
         /\ proc'[s] # "down"
         /\ AGGREGATION_ROOTS[s] = <<>> )
       => /\ blocks' = blocks
          /\ outState' = outState
          /\ settle' = settle
          /\ calq' = calq
          /\ cal'[s].pc = "idle"
          /\ lock'[s]["calendar"] = "idle"
          /\ keyHolder' = keyHolder
C7_EmptyTickDoesNothing == [][C7_Step]_vars

C7_Witness == \E s \in Stacks : cal[s].last = "empty" /\ blocks # {}

\* C8: when a calendar handler run ends without a block, the roots it had
\* snapshotted are back at the head of AGGREGATION_ROOTS in their order,
\* ahead of the roots that arrived during the run.
C8_Step ==
  \A s \in Stacks :
    (cal[s].pc # "idle" /\ cal'[s].pc = "idle" /\ blocks' = blocks /\ proc'[s] # "down") =>
      AGGREGATION_ROOTS'[s] = cal[s].rootsForTree \o AGGREGATION_ROOTS[s]
C8_FailedCommitReturnsRoots == [][C8_Step]_vars

C8_Witness ==
  \E s \in Stacks :
    /\ cal[s].last = "failed" /\ cal[s].pc = "idle"
    /\ Len(AGGREGATION_ROOTS[s]) = 2
    /\ AGGREGATION_ROOTS[s][1].msg = 1

\* C9: a step that acks an aggregator message ends a publish run whose cal
\* block is in the store and whose proof messages, one for every root of
\* the tick, are all published; after a publish run that failed, no message
\* of its tick carries an ack.
Acks(history) == Cardinality({k \in DOMAIN history : history[k] = "ack"})
C9_Step ==
  \A m \in DOMAIN settle :
    Acks(settle'[m]) > Acks(settle[m]) =>
      \E s \in Stacks :
        /\ calDone'[s] # NULL
        /\ \E j \in DOMAIN calDone'[s].roots : calDone'[s].roots[j].msg = m
        /\ calDone'[s].block \in blocks
        /\ \A j \in DOMAIN calDone'[s].roots :
             \E i \in CalMessagesFor(outState', calDone'[s].block.id) :
               outState'[i].agg_id = calDone'[s].roots[j].agg_id
C9_State ==
  \A s \in Stacks :
    (calDone[s] # NULL /\ calDone[s].outcome \in {"nacked", "aborted"}) =>
      \A j \in DOMAIN calDone[s].roots : Acks(settle[calDone[s].roots[j].msg]) = 0
C9_AckOnlyAfterWriteAndPublishes == []C9_State /\ [][C9_Step]_vars

C9_Witness ==
  \E s \in Stacks :
    /\ calDone[s] # NULL /\ calDone[s].outcome = "nacked"
    /\ Len(calDone[s].roots) = 2
    /\ Cardinality(CalMessagesFor(outState, calDone[s].block.id)) = 1

(***************************************************************************)
(* Properties of the anchor tree, checked under SpecTree.                  *)
(***************************************************************************)
\* C14: every anchor_btc_agg segment on the state queue names a cal block
\* of the store, and applying its ops in order to the hash of that block
\* gives the dataVal of a btc-a block appended after it; every segment a
\* publish run sends is the one its cycle recorded for that cal block.
C14_State ==
  /\ \A j \in DOMAIN outState :
       outState[j].type = "anchor_btc_agg" =>
         \E c \in blocks : \E a \in blocks :
           /\ c.type = "cal" /\ c.id = outState[j].cal_id
           /\ a.type = "btc-a" /\ a.id > c.id
           /\ HexStr(ReplayOps(BufferFrom(c.hash, "hex"), outState[j].ops)) = a.dataVal
  /\ \A s \in Stacks : \A i \in DOMAIN ancq[s] :
       \E a \in AnchorBlocksOf(s) :
         /\ a.dataVal = ancq[s][i].treeData.anchor_btc_agg_root
         /\ \A x \in DOMAIN ancq[s][i].treeData.proofData :
              \E c \in blocks :
                /\ c.type = "cal" /\ c.id < a.id
                /\ c.id = ancq[s][i].treeData.proofData[x].cal_id
                /\ HexStr(ReplayOps(BufferFrom(c.hash, "hex"),
                                    ancq[s][i].treeData.proofData[x].proof)) = a.dataVal
C14_Step ==
  \A j \in DOMAIN outState' :
    (j \notin DOMAIN outState /\ outState'[j].type = "anchor_btc_agg") =>
      \E s \in Stacks : \E i \in DOMAIN ancq[s] :
        \E x \in DOMAIN ancq[s][i].treeData.proofData :
          outState'[j] = AnchorStateObj(ancq[s][i].treeData, x)
C14_SegmentReplaysToAnchorRoot == []C14_State /\ [][C14_Step]_vars

\* a tree of three leaves (genesis, NIST, cal): the cal leaf has no sibling
\* at the first level
C14_Witness ==
  \E j \in DOMAIN outState : \E a \in blocks : \E n \in blocks :
    /\ outState[j].type = "anchor_btc_agg" /\ outState[j].cal_id = 2
    /\ a.type = "btc-a" /\ a.id = 3
    /\ n.type = "nist" /\ n.id = 1
    /\ Len(outState[j].ops) = 2

(***************************************************************************)
(* Properties of the confirm path, checked under SpecConfirm.              *)
(***************************************************************************)
\* C15: every step that appends a btc-c block is taken by a stack whose
\* IS_LEADER is true at that step; a stack that is not leader appends no
\* btc-c block.
C15_Step ==
  \A b \in blocks' \ blocks :
    b.type = "btc-c" =>
      \E s \in Stacks : StackId(s) = b.stackId /\ IS_LEADER[s]
C15_OnlyLeaderConfirms == [][C15_Step]_vars

\* C16: a btcmon message is acked only when its btc-c block is in the store
\* and its state message is on the state queue, and no btcmon message is
\* both nacked and acked.
MonAcked(m) == \E i \in DOMAIN monSettle : monSettle[i] = [m |-> m, how |-> "ack"]
MonNacked(m) == \E i \in DOMAIN monSettle : monSettle[i] = [m |-> m, how |-> "nack"]
C16_AckOnlyAfterBlockAndPublish ==
  \A m \in DOMAIN monIn :
    /\ MonAcked(m) =>
         /\ \E b \in blocks :
              /\ b.type = "btc-c"
              /\ b.dataId = ToString(monIn[m].btchead_height)
              /\ b.dataVal = monIn[m].btchead_root
         /\ \E j \in DOMAIN outState :
              outState[j].type = "btcmon" /\ outState[j].btctx_id = monIn[m].btctx_id
    /\ ~(MonAcked(m) /\ MonNacked(m))

(***************************************************************************)
(* Properties of the reward path, checked under SpecReward.                *)
(***************************************************************************)
\* C17: for every reward message delivered, at most one transfer to its
\* node address and at most one transfer to its core address is requested
\* from the token service.
TransfersFor(m, addr) ==
  {i \in DOMAIN transfers : transfers[i].for = m /\ transfers[i].to = addr}
C17_AtMostOneTransferPerMessage ==
  \A m \in DOMAIN rewIn :
    JsonParses(rewIn[m]) =>
      /\ Cardinality(TransfersFor(m, rewIn[m].node.address)) <= 1
      /\ rewIn[m].core # NULL =>
           Cardinality(TransfersFor(m, rewIn[m].core.address)) <= 1

\* C18, as the claim states it: a run of the reward handler that has
\* attempted the transfers ends with an ack of its message, and a reward
\* message is never nacked.
RewardRunEnds(s) == rew[s].pc \in {"read", "write"} /\ rew'[s].pc = "idle"
RewardAck(s) == [m |-> rew[s].msg, how |-> "ack"]
C18_NeverNacked == \A i \in DOMAIN rewSettle : rewSettle[i].how = "ack"
C18_StepAsClaimed ==
  \A s \in Stacks : RewardRunEnds(s) => rewSettle' = Append(rewSettle, RewardAck(s))
C18_AlwaysAcksAsClaimed == []C18_NeverNacked /\ [][C18_StepAsClaimed]_vars

\* C18, amended: a run of the reward handler that has attempted the
\* transfers ends with exactly one ack of its message when amqpChannel is
\* open at that moment, whether the transfers and the block write
\* succeeded or failed; when amqpChannel is null the ack throws and nothing
\* is sent; a reward message is never nacked.
C18_Step ==
  \A s \in Stacks :
    RewardRunEnds(s) =>
      rewSettle' = IF amqpChannel[s] THEN Append(rewSettle, RewardAck(s))
                   ELSE rewSettle
C18_AcksWhileChannelOpen == []C18_NeverNacked /\ [][C18_Step]_vars

\* a message acked although its node transfer failed and no reward block
\* was written
C18_Witness ==
  \E i \in DOMAIN rewSettle : \E j \in DOMAIN transfers :
    /\ rewSettle[i].how = "ack"
    /\ transfers[j].for = rewSettle[i].m /\ ~transfers[j].ok
    /\ ~ \E b \in blocks : b.type = "reward"

\* C19: a lock object is held only while its handler is still running: a
\* handler that has ended, by return or by exception, has called release.
HandlerRunning(s, n) ==
  CASE n = "genesis" -> gen[s] # "idle"
    [] n = "calendar" -> cal[s].pc # "idle"
    [] n = "nist" -> nist[s].pc # "idle"
    [] n = "btc-anchor" -> anc[s].pc # "idle"
    [] n = "btc-confirm" -> conf[s].pc # "idle"
    [] OTHER -> rew[s].pc \notin {"idle", "thrown"}
C19_EndedHandlerHasReleased ==
  \A s \in Stacks : \A n \in LockNames :
    lock[s][n] = "held" => HandlerRunning(s, n)


(***************************************************************************)
(* Properties of PUT /node, checked under SpecNode.                        *)
(***************************************************************************)
\* The request reached the HMAC verification: no URI conflict, Node found.
HmacVerified == putNode # NULL /\ putNode.status \notin {"Conflict", "NotFoundError"}

HmacAccepted == putNode.status # "InvalidArgument"

\* The HMACs of the calendar minutes from..to for the Node of the request.
HmacsOfMinutes(minutes) ==
  {createHmac(row.hmacKey,
              hmacTxt(putNode.req.tnt_addr, putNode.req.public_uri, format(m))) :
     row \in {r \in RegisteredNodeRows : r.tntAddr = putNode.req.tnt_addr},
     m \in minutes}

\* C20: at every verification time t, the minutes 00 and 59 of an hour and
\* the first and last minute of a day included, PUT /node accepts an HMAC if
\* and only if it is HMAC-SHA256(hmacKey, tnt_addr || public_uri || fmt(m))
\* for a calendar minute m of t - 1, t, t + 1; an HMAC of the minute t - 2 or
\* t + 2 is rejected.
C20_AcceptsExactlyThreeMinutes ==
  HmacVerified =>
    /\ HmacAccepted <=>
         putNode.req.hmac \in HmacsOfMinutes((putNode.at - 1) .. (putNode.at + 1))
    /\ putNode.req.hmac \in HmacsOfMinutes({putNode.at - 2, putNode.at + 2})
         => ~HmacAccepted


(***************************************************************************)
(* Properties of the registry, checked under SpecRegistry.                 *)
(***************************************************************************)
CapAnswer(r) ==
  /\ http[r].op = "post"
  /\ http[r].pc = "done"
  /\ http[r].status = "Forbidden"
  /\ http[r].message = CapMessage

\* C21: with the cap at N and N or more Nodes registered, a well-formed
\* POST /node is answered with ForbiddenError when its count of the rows
\* returns and creates no row; the cap is 0 until it is set, so until then
\* every registration is rejected.
C21_Step ==
  \A r \in Requests :
    (/\ PostNodeCountTotal(r)
     /\ http[r].pc = "count1"
     /\ Cardinality(RegisteredNode) >= regNodesLimit)
    => /\ CapAnswer(r)'
       /\ RegisteredNode' = RegisteredNode

C21_CapRejects ==
  /\ Init => regNodesLimit = 0
  /\ [][C21_Step]_vars

C21_Witness ==
  /\ regNodesLimit = Cardinality(RegisteredNodeRows)
  /\ RegisteredNode = RegisteredNodeRows
  /\ \E r \in Requests : CapAnswer(r)

\* C22: in every reachable state of the registry no two registered Nodes
\* have the same tntAddr and no two have the same publicUri that is not null.
C22_UniqueAddrAndUri ==
  \A a, b \in RegisteredNode :
    a # b => /\ a.tntAddr # b.tntAddr
             /\ (a.publicUri # NULL => a.publicUri # b.publicUri)

(***************************************************************************)
(* Properties of a connection loss, checked under SpecCal.                 *)
(***************************************************************************)
\* The messages received on a connection that has closed since.  No message
\* is redelivered here, so whatever happens to one of them happens from the
\* state of the process.
LostMessages == {m \in DOMAIN aggIn : aggIn[m].lost}

C23_State ==
  \A s \in Stacks : \A i \in DOMAIN AGGREGATION_ROOTS[s] :
    AGGREGATION_ROOTS[s][i].msg \notin LostMessages

C23_Step ==
  /\ \A m \in LostMessages : settle'[m] = settle[m]
  /\ \A s \in Stacks :
       CalWriteOk(s) =>
         \A i \in DOMAIN cal[s].rootsForTree :
           cal[s].rootsForTree[i].msg \notin LostMessages

\* C23: after a connection loss no aggregator message received on the lost
\* connection is in AGGREGATION_ROOTS, nor is it later acked, nacked or put
\* into a cal block, also when a calendar tick had taken its snapshot and
\* was running when the connection closed.
C23_LostConnectionWorkIsDiscarded == []C23_State /\ [][C23_Step]_vars

(***************************************************************************)
(* Properties of the message dispatch, checked under SpecDispatch.         *)
(***************************************************************************)
\* The types that have no consumer in this process.
NoConsumerFor(type) ==
  \/ type \notin {"aggregator", "btctx", "btcmon", "reward"}
  \/ type \in {"btctx", "btcmon"} /\ ANCHOR_BTC # "enabled"

C24_State ==
  /\ \A i \in DOMAIN otherIn :
       NoConsumerFor(otherIn[i].type) /\ otherIn[i].settle = <<"ack">>
  /\ NoConsumerFor("btcmon") =>
       /\ monIn = <<>>
       /\ \A s \in Stacks : BTC_MON_MESSAGES[s] = <<>> /\ pending[s]["btc-confirm"] = 0

C24_Step ==
  /\ \A i \in DOMAIN otherIn : i \in DOMAIN otherIn' /\ otherIn'[i] = otherIn[i]
  /\ otherIn' # otherIn =>
       UNCHANGED <<now, blocks, lockVars, connVars, outState, gen, calVars,
                   nistVars, ancVars, confVars, rewVars, apiVars, ANCHOR_BTC>>

\* C24: a message whose type is none of aggregator, btctx, btcmon and reward
\* is acked once and nothing else happens: no block, nothing published, no
\* buffer changed; likewise a btctx or btcmon message when BTC anchoring is
\* disabled.
C24_UnknownTypesAreAckedAndDropped == []C24_State /\ [][C24_Step]_vars

C24_Witness ==
  /\ ANCHOR_BTC = "disabled"
  /\ \E i, j \in DOMAIN otherIn :
       otherIn[i].type = "btcmon" /\ otherIn[j].type = "other"

(***************************************************************************)
(* Properties of the audit challenge, checked under SpecChallenge.         *)
(***************************************************************************)
\* C25: for every top block id >= 0 and every random number r of 10..1000
\* the challenge has max = tip.id when tip.id <= 2000 and tip.id - 1000 when
\* tip.id > 2000, and min = max - r, or 0 when that is negative; so
\* 0 <= min <= max <= tip.id for every cached challenge.
C25_ChallengeRange ==
  auditChallenge # NULL =>
    LET c == auditChallenge
    IN /\ c.randomNum \in 10 .. 1000
       /\ c.max = IF c.tip <= 2000 THEN c.tip ELSE c.tip - 1000
       /\ c.min = IF c.max - c.randomNum < 0 THEN 0 ELSE c.max - c.randomNum
       /\ 0 <= c.min /\ c.min <= c.max /\ c.max <= c.tip

C25_Witness ==
  /\ auditChallenge # NULL
  /\ auditChallenge.tip = 2001
  /\ auditChallenge.max = 1001
  /\ auditChallenge.min = 1

(***************************************************************************)
(* Properties of the leader election of the audit producer, checked under  *)
(* SpecAudit.                                                              *)
(***************************************************************************)
StartsChallenge(i) ==
  producer[i].challenge # "run" /\ producer'[i].challenge = "run"

StartsRound(i) ==
  producer[i].round.pc = "idle" /\ producer'[i].round.pc = "find"

\* C26: a step in which an instance starts a challenge generation or an
\* audit round is taken only when the IS_LEADER flag of that instance is true
\* at that moment: an instance that never gained leadership, or whose
\* election session reported an error since it did, starts neither.
C26_OnlyTheLeaderStarts ==
  [][\A i \in Instances :
       StartsChallenge(i) \/ StartsRound(i) => AUDIT_IS_LEADER[i]]_vars

\* instance 1 leads and has started a round in a minute of the audit rounds
\* in which instance 2, which does not lead, ticked and started none
C26_Witness ==
  /\ getUTCMinutes \in nodeAuditRoundsMinutes
  /\ AUDIT_IS_LEADER[1]
  /\ producer[1].round.pc = "find"
  /\ ~AUDIT_IS_LEADER[2]
  /\ producer[2].pc = "running"
  /\ producer[2].roundMinute = getUTCMinutes
  /\ producer[2].round.pc = "idle"
  /\ auditChallenge # NULL

(***************************************************************************)
(* Properties of an audit round and of its prune, checked under SpecRound  *)
(* and SpecPrune.                                                          *)
(***************************************************************************)
\* the audit tasks of a round that are in the queue for a Node
AuditTasksFor(round, tntAddr) ==
  {k \in DOMAIN auditQueue :
     /\ auditQueue[k].type = "audit"
     /\ auditQueue[k].round = round
     /\ auditQueue[k].task.tntAddr = tntAddr}

\* C27: when an audit round ends, the queue holds exactly one audit task of
\* that round for every Node that was registered with a publicUri that is
\* not null when the round read the registry, and none for a Node whose
\* publicUri is null.
C27_OneTaskPerPublicNode ==
  [][\A i \in ChallengeInstances :
       auditNodesEnd(i) =>
         \A row \in producer[i].round.table :
           Cardinality(AuditTasksFor(producer[i].round.id, row.tntAddr))
             = IF row.publicUri # NULL THEN 1 ELSE 0]_vars

\* the rows of the audit log that are at least six hours old at a time
OldRows(at) ==
  {k \in DOMAIN NodeAuditLog : at - NodeAuditLog[k] >= 6 * 60 * Minute}

Covers(task, k) ==
  task.startBound <= NodeAuditLog[k] /\ NodeAuditLog[k] <= task.endBound

\* the audit_at of the n-th of the old rows when they are ordered by audit_at
NthOldest(at, n) ==
  CHOOSE v \in {NodeAuditLog[k] : k \in OldRows(at)} :
    /\ Cardinality({k \in OldRows(at) : NodeAuditLog[k] < v}) < n
    /\ n <= Cardinality({k \in OldRows(at) : NodeAuditLog[k] <= v})

\* the tasks are the batches of size rows of the old rows ordered by audit_at
SplitInBatchesOf(size, at, tasks) ==
  LET count == Cardinality(OldRows(at))
  IN /\ Len(tasks) * size >= count
     /\ (Len(tasks) - 1) * size < count
     /\ \A b \in DOMAIN tasks :
          /\ tasks[b].startBound = NthOldest(at, (b - 1) * size + 1)
          /\ tasks[b].endBound =
               NthOldest(at, IF b * size > count THEN count ELSE b * size)

PublishedPruneTasksCoverOldRowsOnly ==
  \A q \in DOMAIN auditQueue :
    auditQueue[q].type = "prune" =>
      \A k \in DOMAIN NodeAuditLog :
        Covers(auditQueue[q].task, k) => k \in OldRows(auditQueue[q].at)

\* C28 as stated: every published prune task covers only rows that are at
\* least six hours old, the rows are split into batches of 500, and when the
\* prune has published its last batch every such row is covered by a
\* published task.
C28_PruneBatchesOf500 ==
  /\ [](/\ PublishedPruneTasksCoverOldRowsOnly
        /\ \A i \in ChallengeInstances :
             producer[i].prune.pc = "send" =>
               SplitInBatchesOf(500, producer[i].prune.at, producer[i].prune.tasks))
  /\ [][\A i \in ChallengeInstances :
          producer[i].prune.pc = "send" /\ producer'[i].prune.pc = "idle" =>
            \A k \in OldRows(producer[i].prune.at) :
              \E q \in DOMAIN auditQueue' :
                /\ auditQueue'[q].type = "prune"
                /\ auditQueue'[q].at = producer[i].prune.at
                /\ Covers(auditQueue'[q].task, k)]_vars

\* C28, amended: every published prune task covers only rows that are at
\* least six hours old when the prune runs; the batches the prune computes
\* cover every such row and split the rows, ordered by audit_at, into batches
\* of 250; each batch is published in its turn or, when its publish fails,
\* skipped.
C28_PruneBatchesOf250 ==
  /\ [](/\ PublishedPruneTasksCoverOldRowsOnly
        /\ \A i \in ChallengeInstances :
             producer[i].prune.pc = "send" =>
               /\ SplitInBatchesOf(250, producer[i].prune.at, producer[i].prune.tasks)
               /\ \A k \in OldRows(producer[i].prune.at) :
                    \E b \in DOMAIN producer[i].prune.tasks :
                      Covers(producer[i].prune.tasks[b], k))
  /\ [][\A i \in ChallengeInstances :
          producer[i].prune.pc = "send" /\ producer'[i].prune # producer[i].prune =>
            LET prune == producer[i].prune
            IN auditQueue' \in
                 {auditQueue,
                  Append(auditQueue, [type |-> "prune", task |-> prune.tasks[prune.x],
                                      at |-> prune.at])}]_vars

\* 501 rows are six hours old, two of the three batches are published and
\* the third is next
C28_Witness ==
  /\ Len(NodeAuditLog) = 503
  /\ \E i \in ChallengeInstances :
       /\ producer[i].prune.pc = "send"
       /\ Len(producer[i].prune.tasks) = 3
       /\ producer[i].prune.x = 3
       /\ Cardinality(OldRows(producer[i].prune.at)) = 501
       /\ Cardinality({q \in DOMAIN auditQueue : auditQueue[q].type = "prune"}) = 2

(***************************************************************************)
(* Properties of the order of a tick, checked under SpecCal.               *)
(***************************************************************************)
\* the handler of lock n of stack s releases the lock in this step
Releases(s, n) == lock[s][n] = "held" /\ lock'[s][n] # "held"

\* C29: in a calendar tick and in an anchor cycle the lock is released only
\* after the publishes and the ack or nack of the tick have completed: a
\* step that releases calendarLock or btcAnchorLock leaves no state data of
\* the stack waiting to be published, and every publish, ack and nack of the
\* stack is made while it holds the lock.
C29_ReleaseComesLast ==
  [][\A s \in Stacks :
       /\ Releases(s, "calendar") /\ proc'[s] # "down" => calq'[s] = <<>>
       /\ Releases(s, "btc-anchor") /\ proc'[s] # "down" => ancq'[s] = <<>>
       /\ (\E i \in DOMAIN calq[s] : CalPublish(s, i) \/ CalPublishFail(s, i))
            => lock[s]["calendar"] = "held"
       /\ (\E i \in DOMAIN ancq[s] : AnchorPublish(s, i) \/ AnchorPublishFail(s, i))
            => lock[s]["btc-anchor"] = "held"]_vars

\* C30: every delivery of an aggregator message is settled at most once over
\* a tick, failed and retried block writes included: no message is nacked
\* more than once and none is acked after it was nacked.
C30_SettledAtMostOnce ==
  \A m \in DOMAIN settle :
    /\ Cardinality({k \in DOMAIN settle[m] : settle[m][k] = "nack"}) <= 1
    /\ \A j, k \in DOMAIN settle[m] :
         j < k /\ settle[m][j] = "nack" => settle[m][k] # "ack"

(***************************************************************************)
(* Properties of the confirm handler, checked under SpecConfirm.           *)
(***************************************************************************)
\* C31: every btcmon message a run of the confirm handler took out of
\* BTC_MON_MESSAGES is acked or nacked in the end, also when the write of an
\* earlier message of the batch failed after its retries: when a run ends
\* with the connection up, each message of its batch is settled or waits for
\* the publish that settles it.
C31_BatchIsSettled ==
  [][\A s \in Stacks :
       conf[s].pc # "idle" /\ conf'[s].pc = "idle" /\ proc'[s] # "down"
         /\ amqpChannel[s] =>
         \A k \in DOMAIN conf[s].monMessagesToProcess :
           LET m == conf[s].monMessagesToProcess[k]
           IN \/ \E j \in DOMAIN monSettle' : monSettle'[j].m = m
              \/ \E j \in DOMAIN confq'[s] : confq'[s][j].msg = m]_vars

(***************************************************************************)
(* Properties of the reward consumer, checked under SpecReward.            *)
(***************************************************************************)
\* C32: every reward message delivered to the consumer is processed by the
\* reward handler and acked in the end, also when a second message arrives
\* before the handler ran for the first: a delivered message that is not
\* settled yet is still the one a handler run works on or will take up.
C32_NoRewardMessageIsDropped ==
  \A m \in DOMAIN rewIn :
    \/ \E j \in DOMAIN rewSettle : rewSettle[j].m = m
    \/ \E s \in Stacks : rewardLatest[s] = m \/ rew[s].msg = m

(***************************************************************************)
(* Properties of the registration cap, checked under SpecCap.              *)
(***************************************************************************)
\* C33: for a fixed cap N the number of registered Nodes never exceeds N,
\* under every interleaving of concurrent POST /node requests.
C33_CapIsNeverExceeded == Cardinality(RegisteredNode) <= regNodesLimit

(***************************************************************************)
(* Properties of the answers of the registry, checked under SpecRegistry.  *)
(***************************************************************************)
\* the request in slot r is answered in this step
Answered(r) == http[r].pc # "done" /\ http'[r].pc = "done"
AnsweredAgain(r) == http[r].pc = "done" /\ http'[r] # http[r]

\* C34: a POST /node or PUT /node request that is answered with an error
\* leaves the table unchanged: the table changes only in the step in which a
\* request creates or saves its row and is answered without an error, and in
\* no step of a request that ends in an error.
C34_ErrorsLeaveTheTableAlone ==
  [][/\ \A r \in Requests :
          (Answered(r) \/ AnsweredAgain(r)) /\ http'[r].status # "OK"
            => RegisteredNode' = RegisteredNode
     /\ RegisteredNode' # RegisteredNode =>
          \E r \in Requests :
            /\ http[r].pc \in {"create", "save"}
            /\ Answered(r)
            /\ http'[r].status = "OK"]_vars

\* a PUT with a valid HMAC was refused for its balance after the handler had
\* set the new URI on the row it read, and a POST was refused for a conflict:
\* the table is the one Core started with
C34_Witness ==
  /\ RegisteredNode = RegisteredNodeRows
  /\ http[1] = [NoRequest EXCEPT !.op = "put", !.pc = "done", !.status = "Forbidden"]
  /\ http[2] = [NoRequest EXCEPT !.op = "post", !.pc = "done", !.status = "Conflict"]

(***************************************************************************)
(* Properties of the answers of PUT /node, checked under SpecNode.         *)
(***************************************************************************)
\* the request carries an HMAC that the Node of its address in the table
\* accepts at that minute
HasValidHmac(table, req, clock) ==
  \E row \in table :
    row.tntAddr = req.tnt_addr /\ req.hmac \in acceptableHMACs(row, req, clock)

\* the tables that differ from the table in the publicUri of one other Node
\* only, which is or is not the submitted one
OtherRegistries(table, req) ==
  {{IF row = other THEN [row EXCEPT !.publicUri = uri] ELSE row : row \in table} :
     other \in {row \in table : row.tntAddr # req.tnt_addr},
     uri \in {req.public_uri, NULL}}

\* C35: the answer to a PUT /node request without a valid HMAC for the Node
\* it names does not depend on the rows of other Nodes: a registry that
\* differs only in whether another Node has registered the submitted
\* public_uri gives the same answer.
C35_UnauthenticatedAnswerHidesOtherRows ==
  putNode # NULL /\ ~HasValidHmac(RegisteredNode, putNode.req, putNode.at) =>
    \A other \in OtherRegistries(RegisteredNode, putNode.req) :
      putNodeStatusIn(other, putNode.req, "enough", putNode.at) = putNode.status

(***************************************************************************)
(* Properties of the btctx consumer.                                       *)
(***************************************************************************)
StatePublished(m) ==
  \E j \in DOMAIN outState : outState[j] = BtcTxStateObj(btcTxIn[m].content)
MonitorRequested(m) ==
  \E j \in DOMAIN outBtcMon : outBtcMon[j] = BtcTxMonitorRequest(btcTxIn[m].content)

\* what holds of a btctx message whatever made a publish fail: no ack before
\* both publishes, no monitor request without the state message, no second
\* settlement
BtcTxSettledInOrder(m) ==
  /\ "ack" \in SeqToSet(btcTxIn[m].settle) => StatePublished(m) /\ MonitorRequested(m)
  /\ MonitorRequested(m) => StatePublished(m)
  /\ Len(btcTxIn[m].settle) <= 1
  /\ btcTxIn[m].pc = "done" /\ StatePublished(m) /\ MonitorRequested(m) =>
       btcTxIn[m].settle = <<"ack">>

\* C36 as stated: a btctx message is acked only after its state message and
\* its monitor request were published; when either publish failed the message
\* is nacked exactly once and never acked, and no monitor request follows a
\* failed state publish.
C36_NackedAfterEveryFailedPublish ==
  \A m \in DOMAIN btcTxIn :
    /\ BtcTxSettledInOrder(m)
    /\ btcTxIn[m].pc = "done" /\ ~(StatePublished(m) /\ MonitorRequested(m)) =>
         btcTxIn[m].settle = <<"nack">>

\* the run of message m ends in this step with a publish that failed
EndsWithFailedPublish(m) ==
  /\ btcTxIn[m].pc # "done"
  /\ btcTxIn'[m].pc = "done"
  /\ outState' = outState
  /\ outBtcMon' = outBtcMon

\* C36: a btctx message is acked only after its state message and its
\* monitor request were published, and no monitor request follows a failed
\* state publish; a publish that fails while the channel is set has the
\* message nacked exactly once and never acked, and a publish that fails
\* because the channel is null leaves the message neither acked nor nacked.
C36_NackedAfterFailedPublishOnOpenChannel ==
  /\ [](\A m \in DOMAIN btcTxIn : BtcTxSettledInOrder(m))
  /\ [][\A m \in DOMAIN btcTxIn :
          EndsWithFailedPublish(m) =>
            btcTxIn'[m].settle = IF amqpChannel[btcTxIn[m].to] THEN <<"nack">>
                                 ELSE <<>>]_vars

C36_Witness ==
  \E m, n \in DOMAIN btcTxIn :
    /\ btcTxIn[m].pc = "done" /\ btcTxIn[m].settle = <<"ack">>
    /\ StatePublished(m) /\ MonitorRequested(m)
    /\ btcTxIn[n].pc = "done" /\ btcTxIn[n].settle = <<"nack">>
    /\ StatePublished(n) /\ ~MonitorRequested(n)

(***************************************************************************)
(* Properties of the reward transfers.                                     *)
(***************************************************************************)
\* the step appends one POST /transfer of amount to address for message m
Attempts(m, part) ==
  /\ Len(transfers') = Len(transfers) + 1
  /\ SubSeq(transfers', 1, Len(transfers)) = transfers
  /\ LET t == transfers'[Len(transfers')]
     IN t.to = part.address /\ t.value = part.amount /\ t["for"] = m

\* one step of the reward handlers: a run attempts the node transfer once,
\* then the core transfer once when CoreIsPaid holds of its message, and
\* nothing else asks the token service for a transfer
RewardRunTransfers(CoreIsPaid(_)) ==
  /\ \A s \in Stacks :
       LET content == rewIn[rew[s].msg] IN
       /\ rew[s].pc = "node" /\ rew'[s] # rew[s] =>
            /\ Attempts(rew[s].msg, content.node)
            /\ rew'[s].pc = IF CoreIsPaid(content) THEN "core" ELSE "read"
       /\ rew[s].pc = "core" /\ rew'[s] # rew[s] =>
            /\ Attempts(rew[s].msg, content.core)
            /\ rew'[s].pc = "read"
       /\ rew'[s].pc = "node" /\ rew'[s] # rew[s] => rew[s].pc = "idle"
       /\ rew'[s].pc = "core" /\ rew'[s] # rew[s] => rew[s].pc = "node"
  /\ transfers' # transfers =>
       \E s \in Stacks : rew[s].pc \in {"node", "core"} /\ rew'[s] # rew[s]

HasCorePart(content) == content.core # NULL
HasCoreShare(content) == content.core # NULL /\ content.core.amount > 0

\* C37 as stated: every run of the reward handler attempts exactly one
\* transfer of node.amount to node.address, and a transfer of core.amount to
\* core.address exactly when its message has a core part.
C37_CoreIsPaidWhenPresent == [][RewardRunTransfers(HasCorePart)]_vars

\* C37: every run of the reward handler attempts exactly one transfer of
\* node.amount to node.address for its message, and one transfer of
\* core.amount to core.address exactly when the message has a core part
\* whose amount is above 0.
C37_CoreIsPaidWhenShareIsPositive == [][RewardRunTransfers(HasCoreShare)]_vars

\* a message with a core part of amount 0 went through the handler after
\* one with a positive core share
C37_Witness ==
  \E m, n \in DOMAIN rewIn :
    /\ JsonParses(rewIn[m]) /\ HasCoreShare(rewIn[m])
    /\ Cardinality(TransfersFor(m, rewIn[m].node.address)) = 1
    /\ Cardinality(TransfersFor(m, rewIn[m].core.address)) = 1
    /\ JsonParses(rewIn[n]) /\ HasCorePart(rewIn[n]) /\ ~HasCoreShare(rewIn[n])
    /\ Cardinality(TransfersFor(n, rewIn[n].node.address)) = 1
    /\ TransfersFor(n, rewIn[n].core.address) = {}
    /\ \E i \in DOMAIN rewSettle : rewSettle[i].m = n

(***************************************************************************)
(* Properties of the daily credit top-off.                                 *)
(***************************************************************************)
\* an instance's top-off heartbeat event ran in this step and logged outcome
ToppedOff(i, outcome) ==
  /\ producer[i].pc = "running"
  /\ producer'[i].currentDay # producer[i].currentDay
  /\ producer'[i].topoff = outcome

\* row q is row r with its credit raised to amount when it was below
RaisedTo(r, q, amount) ==
  /\ q.tntAddr = r.tntAddr
  /\ q.publicUri = r.publicUri
  /\ q.hmacKey = r.hmacKey
  /\ q.tntCredit = IF r.tntCredit < amount THEN amount ELSE r.tntCredit
  /\ q.tntCredit >= r.tntCredit

\* C38: a top-off sets tntCredit to 86400 for exactly the Nodes whose
\* tntCredit is below 86400 and leaves every other Node and every other field
\* as it was; it never lowers a credit, and topping off the table it left
\* changes nothing.  A top-off whose update fails changes nothing.
C38_TopoffRaisesLowCreditsOnly ==
  [][\A i \in Instances :
       /\ ToppedOff(i, "done") =>
            /\ Cardinality(RegisteredNode') = Cardinality(RegisteredNode)
            /\ \A r \in RegisteredNode : \E q \in RegisteredNode' : RaisedTo(r, q, 86400)
            /\ performCreditTopoffAsync(RegisteredNode', 86400) = RegisteredNode'
       /\ ToppedOff(i, "failed") => RegisteredNode' = RegisteredNode]_vars

\* a registry with a credit below and a credit above the amount was topped
\* off, and topped off again by the other instance
C38_Witness ==
  /\ \A i \in Instances : producer[i].topoff = "done"
  /\ \E r, q \in RegisteredNode : r.tntCredit = 86400 /\ q.tntCredit = 86401

(***************************************************************************)
(* Progress of the calendar writer, checked under SpecLive.                *)
(***************************************************************************)
\* the leaf lists a tick can have built from the deliveries so far
LeafLists ==
  UNION {{[i \in 1..k |-> aggIn[f[i]].agg_root] : f \in [1..k -> DOMAIN aggIn]} :
           k \in 1..MaxAgg}

\* the root of delivery m is a leaf of the tree of a cal block of the store
IncludedInCalBlock(m) ==
  \E b \in blocks : \E leaves \in LeafLists :
    /\ m \in DOMAIN aggIn
    /\ b.type = "cal"
    /\ b.dataVal = MerkleRootHex(leaves)
    /\ aggIn[m].agg_root \in SeqToSet(leaves)

\* a delivery of the message of delivery m was acked
MessageAcked(m) ==
  \E d \in DOMAIN aggIn :
    /\ m \in DOMAIN aggIn
    /\ aggIn[d].agg_id = aggIn[m].agg_id
    /\ "ack" \in SeqToSet(settle[d])

InitsOfCall == {i \in DOMAIN rmq.onInit : rmq.onInit[i].call = rmq.call}

\* the function has returned only with a connection and a confirm channel,
\* after exactly one onInit with that channel; until then onInit was not
\* called; onClose was called once for connections that were handed to
\* onInit and have closed, and for no other
RmqCallbacksInOrder ==
  /\ rmq.pc \in {"returned", "closed"} =>
       /\ Cardinality(InitsOfCall) = 1
       /\ \A i \in InitsOfCall :
            /\ rmq.onInit[i].chan \in DOMAIN rmq.conns
            /\ rmq.conns[rmq.onInit[i].chan].chan
            /\ rmq.pc = "returned" => rmq.conns[rmq.onInit[i].chan].open
  /\ rmq.pc \in {"connect", "sleep"} => InitsOfCall = {}
  /\ \A j \in DOMAIN rmq.onClose :
       /\ ~rmq.conns[rmq.onClose[j]].open
       /\ \E i \in DOMAIN rmq.onInit : rmq.onInit[i].chan = rmq.onClose[j]
       /\ \A k \in DOMAIN rmq.onClose : rmq.onClose[k] = rmq.onClose[j] => k = j

\* an attempt that failed is followed by the sleep and another attempt, and
\* the attempt the broker accepts by the return; onClose is called in the
\* step in which the connection closes
RmqLoopStep ==
  /\ rmq.pc = "connect" =>
       IF rmq'.onInit # rmq.onInit THEN rmq'.pc = "returned"
       ELSE rmq'.pc \in {"connect", "sleep"}
  /\ rmq.pc = "sleep" /\ rmq'.pc # "sleep" => rmq'.pc = "connect"
  /\ rmq'.onClose # rmq.onClose =>
       \E c \in DOMAIN rmq.conns :
         /\ rmq.conns[c].open /\ ~rmq'.conns[c].open
         /\ rmq'.onClose = Append(rmq.onClose, c)

\* C40: openStandardRMQConnectionAsync tries again after every failed
\* attempt and returns only after a connection and a confirm channel were
\* established; when the broker goes on being able to accept, the call
\* returns, after exactly one onInit with the new channel; onClose is called
\* only when that connection closes.
C40_RetriesUntilConnected ==
  /\ []RmqCallbacksInOrder
  /\ [][RmqLoopStep]_vars
  /\ (rmq.pc \in {"connect", "sleep"}) ~> (rmq.pc = "returned")

\* the second call returned after failed attempts of each kind, the
\* connection of the first call having closed
C40_Witness ==
  /\ rmq.pc = "returned"
  /\ rmq.call = 2
  /\ rmq.onClose = <<1>>
  /\ Len(rmq.onInit) = 2
  /\ \E c, d \in DOMAIN rmq.conns :
       /\ ~rmq.conns[c].chan
       /\ rmq.conns[d].chan /\ ~rmq.conns[d].closeHandler

====
